---- MODULE Spec2Model ----
(***************************************************************************)
(* Model of the dolphin-cli page generator: the name transforms, the       *)
(* create-page command and the source patchers (vite config, routes file,  *)
(* shard class file).  Text is modelled as TLA+ strings; positions are     *)
(* 0-based as in JavaScript.                                               *)
(***************************************************************************)
EXTENDS Integers, Sequences, FiniteSets, TLC

VARIABLES
    fs,         \* the files of the project: path -> text
    pc,         \* create-page, per invocation: where the command is
    argName,    \* create-page: the <name> argument
    ptype,      \* create-page: the --type option
    yes,        \* create-page: the -y option
    step,       \* create-page: the next step of the page flow
    exitCode,   \* create-page: the exit status, -1 while running
    log,        \* create-page: the messages printed
    fs0,        \* create-page: the files when the command started
    writes,     \* create-page: the paths the command has written
    io,         \* create-page: whether the file system was accessed
    tArg,       \* name-transform harness: the input string
    tPascal,    \* result of toPascalCase(tArg), or Unset
    tCamel,     \* result of toCamelCase(tArg), or Unset
    tSnake,     \* result of toScreamingSnakeCase(tArg), or Unset
    pcall,      \* patcher harness: the last patcher call, [op, name]
    pprev,      \* patcher harness: the files before the last call
    plog,       \* patcher harness: the messages of the last call
    pdone       \* patcher harness: the calls made before the last one

nameVars == <<tArg, tPascal, tCamel, tSnake>>

patchVars == <<pcall, pprev, plog, pdone>>

cmdVars == <<pc, argName, ptype, yes, step, exitCode, log, fs0, writes, io>>

vars == <<fs, cmdVars, nameVars, patchVars>>

\* ------------------------------------------------------------------------
\* Bounds
\* ------------------------------------------------------------------------
MaxNameLen == 4

\* patcher calls in one behaviour of the patcher harness
MaxCalls == 2

\* ------------------------------------------------------------------------
\* JavaScript string primitives
\* ------------------------------------------------------------------------
Min(S) == CHOOSE x \in S : \A y \in S : x <= y

Max(S) == CHOOSE x \in S : \A y \in S : x >= y

\* s.charAt(i)
CharAt(s, i) == IF i >= 0 /\ i < Len(s) THEN SubSeq(s, i + 1, i + 1) ELSE ""

\* s.slice(a, b) for 0 <= a, 0 <= b
Slice(s, a, b) == IF a >= b THEN "" ELSE SubSeq(s, a + 1, IF b > Len(s) THEN Len(s) ELSE b)

\* s.slice(a)
SliceFrom(s, a) == Slice(s, a, Len(s))

\* s.startsWith(p, i)
MatchAt(s, p, i) == i >= 0 /\ i + Len(p) <= Len(s) /\ SubSeq(s, i + 1, i + Len(p)) = p

\* s.indexOf(p, from): a negative from counts as 0
IndexOfFrom(s, p, from) ==
    LET f == IF from < 0 THEN 0 ELSE from
        S == {i \in f..(Len(s) - Len(p)) : MatchAt(s, p, i)}
    IN  IF S = {} THEN -1 ELSE Min(S)

IndexOf(s, p) == IndexOfFrom(s, p, 0)

\* s.lastIndexOf(p)
LastIndexOf(s, p) ==
    LET S == {i \in 0..(Len(s) - Len(p)) : MatchAt(s, p, i)}
    IN  IF S = {} THEN -1 ELSE Max(S)

\* s.includes(p)
Includes(s, p) == IndexOf(s, p) # -1

LowerLetters == "abcdefghijklmnopqrstuvwxyz"

UpperLetters == "ABCDEFGHIJKLMNOPQRSTUVWXYZ"

Digits == "0123456789"

\* the characters the regular-expression class \s matches
WhiteSpace == {" ", "\n", "\t", "\r"}

IsLower(c) == Len(c) = 1 /\ Includes(LowerLetters, c)

IsUpper(c) == Len(c) = 1 /\ Includes(UpperLetters, c)

IsDigit(c) == Len(c) = 1 /\ Includes(Digits, c)

\* c.toUpperCase() for one character
UpperChar(c) == IF IsLower(c) THEN CharAt(UpperLetters, IndexOf(LowerLetters, c)) ELSE c

\* s.toUpperCase()
RECURSIVE ToUpperCase(_)
ToUpperCase(s) == IF s = "" THEN "" ELSE UpperChar(CharAt(s, 0)) \o ToUpperCase(SliceFrom(s, 1))

\* a string left with its hyphens
KeepHyphens(s) == s

\* s.replace(/-/g, "_")
RECURSIVE ReplaceHyphens(_)
ReplaceHyphens(s) ==
    IF s = "" THEN ""
    ELSE (IF CharAt(s, 0) = "-" THEN "_" ELSE CharAt(s, 0)) \o ReplaceHyphens(SliceFrom(s, 1))

\* name.split("-"): the sequence of the (possibly empty) pieces between hyphens
RECURSIVE SplitHyphen(_)
SplitHyphen(s) ==
    LET i == IndexOf(s, "-")
    IN  IF i = -1 THEN <<s>> ELSE <<Slice(s, 0, i)>> \o SplitHyphen(SliceFrom(s, i + 1))

\* a split whose empty parts are kept
AllParts(parts) == parts

\* parts.filter((part) => part.length > 0)
NonEmptyParts(parts) == SelectSeq(parts, LAMBDA part : Len(part) > 0)

\* a test that takes any non-empty part
IsNonEmpty(part) == Len(part) > 0

\* /^[a-z0-9]+$/.test(part)
IsLowerAlnum(part) ==
    /\ Len(part) > 0
    /\ \A i \in 0..(Len(part) - 1) : IsLower(CharAt(part, i)) \/ IsDigit(CharAt(part, i))

\* a part left as it is
Uncapitalized(part) == part

\* part.charAt(0).toUpperCase() + part.slice(1)
Capitalize(part) == UpperChar(CharAt(part, 0)) \o SliceFrom(part, 1)

\* parts.join("")
RECURSIVE Join(_)
Join(parts) == IF parts = <<>> THEN "" ELSE Head(parts) \o Join(Tail(parts))

\* ------------------------------------------------------------------------
\* Name transforms.  A result is [ok |-> TRUE, val |-> string] or, when the
\* function throws, [ok |-> FALSE, val |-> the error message].
\* ------------------------------------------------------------------------
Ok(v) == [ok |-> TRUE, val |-> v]

Throw(m) == [ok |-> FALSE, val |-> m]

\* parts.map(capitalize).join("")
PascalOf(parts) ==
    IF Len(parts) = 0 THEN Throw("Invalid name: contains only hyphens")
    ELSE IF \E k \in 1..Len(parts) : ~IsLowerAlnum(parts[k])
         THEN Throw("Invalid name part: must contain only lowercase letters and numbers")
         ELSE Ok(Join([k \in 1..Len(parts) |-> Capitalize(parts[k])]))

toPascalCase(name) ==
    IF name = "" THEN Throw("Invalid name: must be a non-empty string")
    ELSE PascalOf(NonEmptyParts(SplitHyphen(name)))

\* the first part as it is, the others capitalized, joined
CamelOf(parts) ==
    IF Len(parts) = 0 THEN Throw("Invalid name: contains only hyphens")
    ELSE IF \E k \in 1..Len(parts) : ~IsLowerAlnum(parts[k])
         THEN Throw("Invalid name part: must contain only lowercase letters and numbers")
         ELSE Ok(Join([k \in 1..Len(parts) |->
                        IF k = 1 THEN parts[k] ELSE Capitalize(parts[k])]))

toCamelCase(name) ==
    IF name = "" THEN Throw("Invalid name: must be a non-empty string")
    ELSE CamelOf(NonEmptyParts(SplitHyphen(name)))

toScreamingSnakeCase(name) == ReplaceHyphens(ToUpperCase(name))

\* ------------------------------------------------------------------------
\* Identifier validation of the create-page command
\* ------------------------------------------------------------------------
\* name.trim()
RECURSIVE TrimEnd(_)
TrimEnd(s) ==
    IF s # "" /\ CharAt(s, Len(s) - 1) \in WhiteSpace THEN TrimEnd(Slice(s, 0, Len(s) - 1)) ELSE s

RECURSIVE TrimStart(_)
TrimStart(s) == IF s # "" /\ CharAt(s, 0) \in WhiteSpace THEN TrimStart(SliceFrom(s, 1)) ELSE s

Trim(s) == TrimStart(TrimEnd(s))

\* /\s/.test(name)
HasWhiteSpace(s) == \E i \in 0..(Len(s) - 1) : CharAt(s, i) \in WhiteSpace

\* /^[a-z][a-z0-9-]*$/.test(name)
ShapeOk(s) ==
    /\ Len(s) > 0
    /\ IsLower(CharAt(s, 0))
    /\ \A i \in 1..(Len(s) - 1) :
          IsLower(CharAt(s, i)) \/ IsDigit(CharAt(s, i)) \/ CharAt(s, i) = "-"

NoReservedKeywords == {}

reservedKeywords ==
    {"abstract", "arguments", "await", "boolean", "break", "byte", "case", "catch", "char",
     "class", "const", "continue", "debugger", "default", "delete", "do", "double", "else",
     "enum", "eval", "export", "extends", "false", "final", "finally", "float", "for",
     "function", "goto", "if", "implements", "import", "in", "instanceof", "int",
     "interface", "let", "long", "native", "new", "null", "package", "private",
     "protected", "public", "return", "short", "static", "super", "switch",
     "synchronized", "this", "throw", "throws", "transient", "true", "try", "typeof",
     "var", "void", "volatile", "while", "with", "yield"}

reservedNames == {"index", "default", "constructor", "prototype"}

\* the message when a case transform throws, "" when both return
TransformError(pascal, camel) ==
    IF ~pascal.ok THEN "Invalid page name: " \o pascal.val
    ELSE IF ~camel.ok THEN "Invalid page name: " \o camel.val
    ELSE ""

\* the checks with the special names looked up before the language words
ValidationErrorNamesFirst(name) ==
    IF name = "" \/ Len(Trim(name)) = 0 THEN "Page name cannot be empty"
    ELSE IF HasWhiteSpace(name) THEN "Page name cannot contain spaces or whitespace"
    ELSE IF ~ShapeOk(name)
         THEN "Page name must start with a letter and contain only lowercase letters, numbers, and hyphens"
    ELSE IF Includes(name, "--") THEN "Page name cannot contain consecutive hyphens"
    ELSE IF CharAt(name, 0) = "-" \/ CharAt(name, Len(name) - 1) = "-"
         THEN "Page name cannot start or end with a hyphen"
    ELSE IF name \in reservedNames
         THEN "Page name \"" \o name \o "\" is a reserved name and might cause conflicts"
    ELSE IF name \in reservedKeywords
         THEN "Page name \"" \o name \o "\" is a reserved JavaScript/TypeScript keyword"
    ELSE TransformError(toPascalCase(name), toCamelCase(name))

\* The message of the first validation check the name fails, "" when it passes them all
ValidationError(name) ==
    IF name = "" \/ Len(Trim(name)) = 0 THEN "Page name cannot be empty"
    ELSE IF HasWhiteSpace(name) THEN "Page name cannot contain spaces or whitespace"
    ELSE IF ~ShapeOk(name)
         THEN "Page name must start with a letter and contain only lowercase letters, numbers, and hyphens"
    ELSE IF Includes(name, "--") THEN "Page name cannot contain consecutive hyphens"
    ELSE IF CharAt(name, 0) = "-" \/ CharAt(name, Len(name) - 1) = "-"
         THEN "Page name cannot start or end with a hyphen"
    ELSE IF name \in reservedKeywords
         THEN "Page name \"" \o name \o "\" is a reserved JavaScript/TypeScript keyword"
    ELSE IF name \in reservedNames
         THEN "Page name \"" \o name \o "\" is a reserved name and might cause conflicts"
    ELSE TransformError(toPascalCase(name), toCamelCase(name))

\* ------------------------------------------------------------------------
\* File system: fs maps the path of every existing file to its text; a
\* directory exists when a file lies under it (fs.outputFile creates them).
\* ------------------------------------------------------------------------
\* fs.pathExists(path): a file, or a directory that holds a file
pathExists(f, path) ==
    path \in DOMAIN f \/ \E q \in DOMAIN f : MatchAt(q, path \o "/", 0)

\* the map f with path set to text
WithFile(f, path, text) == [q \in DOMAIN f \cup {path} |-> IF q = path THEN text ELSE f[q]]

\* ------------------------------------------------------------------------
\* Regular expressions of the patchers
\* ------------------------------------------------------------------------
\* end of the run of white space that starts at i
SkipWs(s, i) ==
    LET S == {j \in i..(Len(s) - 1) : CharAt(s, j) \notin WhiteSpace}
    IN  IF S = {} THEN (IF i > Len(s) THEN i ELSE Len(s)) ELSE Min(S)

Quotes == {"\"", "'"}

NoMatch == [found |-> FALSE, start |-> -1, end |-> -1, group |-> ""]

\* the leftmost of a set of matches
FirstMatch(M) == IF M = {} THEN NoMatch ELSE CHOOSE m \in M : \A n \in M : m.start <= n.start

\* /input:\s*{([^}]*)}/s anchored at i
InputMatchAt(s, i) ==
    LET open == SkipWs(s, i + 6)
        close == IndexOfFrom(s, "}", open + 1)
    IN  IF MatchAt(s, "input:", i) /\ CharAt(s, open) = "{" /\ close # -1
        THEN [found |-> TRUE, start |-> i, end |-> close + 1, group |-> Slice(s, open + 1, close)]
        ELSE NoMatch

\* content.match(/input:\s*{([^}]*)}/s): the leftmost match
InputMatch(s) == FirstMatch({InputMatchAt(s, i) : i \in 0..(Len(s) - 6)} \ {NoMatch})

\* The pieces of the import patterns.  Each takes the position p where the
\* piece has to start and gives the position after it, -1 when it is not
\* there (or p is -1 already).
\* the literal lit
Lit(s, p, lit) == IF MatchAt(s, lit, p) THEN p + Len(lit) ELSE -1

\* (?:lit)? when opt, nothing otherwise
OptLit(s, p, lit, opt) == IF opt /\ MatchAt(s, lit, p) THEN p + Len(lit) ELSE p

\* \s+ when flex, one blank otherwise
Blank(s, p, flex) ==
    IF p < 0 THEN -1
    ELSE IF flex THEN (IF SkipWs(s, p) > p THEN SkipWs(s, p) ELSE -1)
    ELSE IF CharAt(s, p) = " " THEN p + 1 ELSE -1

\* ["']mod["'];? with the first quote expected at q, after the group open..close
ImportMatchEnd(s, i, mod, semiOpt, open, close, q) ==
    LET e == q + 2 + Len(mod)
        semi == CharAt(s, e) = ";"
    IN  IF /\ q # -1
           /\ CharAt(s, q) \in Quotes
           /\ MatchAt(s, mod, q + 1)
           /\ CharAt(s, q + 1 + Len(mod)) \in Quotes
           /\ (semiOpt \/ semi)
        THEN [found |-> TRUE, start |-> i, end |-> IF semi THEN e + 1 ELSE e,
              group |-> Slice(s, open + 1, close)]
        ELSE NoMatch

\* {([^}]+)} from ... with the brace expected at open
ImportMatchFrom(s, i, mod, flex, semiOpt, open) ==
    LET close == IndexOfFrom(s, "}", open + 1)
    IN  IF open # -1 /\ CharAt(s, open) = "{" /\ close > open + 1
        THEN ImportMatchEnd(s, i, mod, semiOpt, open, close,
                            Blank(s, Lit(s, Blank(s, close + 1, flex), "from"), flex))
        ELSE NoMatch

\* A named import of module mod anchored at i.
\*   flex:    white space is \s+ (otherwise exactly one blank)
\*   typeOpt: an optional "type " before the brace
\*   semiOpt: the closing semicolon is optional (otherwise required)
ImportMatchAt(s, i, mod, flex, typeOpt, semiOpt) ==
    ImportMatchFrom(s, i, mod, flex, semiOpt,
                    OptLit(s, Blank(s, Lit(s, i, "import"), flex), "type ", typeOpt))

ImportMatch(s, mod, flex, typeOpt, semiOpt) ==
    FirstMatch({ImportMatchAt(s, i, mod, flex, typeOpt, semiOpt) : i \in 0..(Len(s) - 6)}
                 \ {NoMatch})

\* s.replace(pat, rep) with a string pattern: the first occurrence only
ReplaceFirst(s, pat, rep) ==
    LET i == IndexOf(s, pat)
    IN  IF i = -1 THEN s ELSE Slice(s, 0, i) \o rep \o SliceFrom(s, i + Len(pat))

\* s.replace(/,\s*$/, "")
StripTrailingComma(s) ==
    LET t == TrimEnd(s)
    IN  IF t # "" /\ CharAt(t, Len(t) - 1) = "," THEN Slice(t, 0, Len(t) - 1) ELSE s

\* the text with ins spliced in at position i
Splice(s, i, ins) == Slice(s, 0, i) \o ins \o SliceFrom(s, i)

\* ------------------------------------------------------------------------
\* updateViteConfig
\* ------------------------------------------------------------------------
viteConfigPath == "vite.config.ts"

ViteEntry(pageName) ==
    "        " \o pageName \o ": resolve(__dirname, \"src/client/" \o pageName \o "/index.html\"),"

\* the result of a patcher: the files after it, the messages it printed and
\* the paths it wrote
Patched(f, l, w) == [fs |-> f, log |-> l, wrote |-> w]

\* the body of updateViteConfig once the file is read and the pattern applied
AddViteEntry(f, pageName, content, inputMatch) ==
    IF inputMatch.found
    THEN IF ~Includes(inputMatch.group, pageName \o ":")
         THEN Patched(WithFile(f, viteConfigPath,
                        Slice(content, 0, inputMatch.start)
                          \o "input: {" \o TrimEnd(inputMatch.group) \o "\n" \o ViteEntry(pageName)
                          \o "\n      }"
                          \o SliceFrom(content, inputMatch.end)),
                      <<>>, {viteConfigPath})
         ELSE Patched(f, <<>>, {})
    ELSE Patched(f, <<"warn: Could not find rollupOptions.input in vite.config.ts">>, {})

updateViteConfig(f, pageName) ==
    IF viteConfigPath \notin DOMAIN f
    THEN Patched(f, <<"warn: vite.config.ts not found">>, {})
    ELSE AddViteEntry(f, pageName, f[viteConfigPath], InputMatch(f[viteConfigPath]))

\* ------------------------------------------------------------------------
\* addRoutesToIndex / addFeedRoutesToIndex
\* ------------------------------------------------------------------------
schemasModule == "@shared/types/request-response-schemas"

honoStatusModule == "hono/utils/http-status"

\* The route block of the dashboard flow for a page (template text abridged to
\* the lines that carry the names the patchers search for).
routesToAdd(name, capitalizedName) ==
    "\n// " \o capitalizedName \o " endpoints\n"
    \o "app.get(\"/api/" \o name \o "/load\", async (c) => {\n"
    \o "  const result = await userShard.load" \o capitalizedName \o "(user.id);\n"
    \o "  return send(c, Load" \o capitalizedName \o "ResponseSchema, result, 200);\n"
    \o "});\n\n"
    \o "app.post(\n  \"/api/" \o name \o "/save\",\n"
    \o "  zValidator(\"json\", Save" \o capitalizedName \o "RequestSchema),\n"
    \o "  async (c) => {\n"
    \o "    const result = await userShard.save" \o capitalizedName \o "(user.id, events);\n"
    \o "    return sendError(c, result.statusCode as ContentfulStatusCode, result.error);\n"
    \o "    return send(c, Save" \o capitalizedName \o "ResponseSchema, result, 200);\n"
    \o "  }\n);\n"

\* The route block of the feed flow
feedRoutesToAdd(name, capitalizedName) ==
    "\n// " \o capitalizedName \o " endpoints\n"
    \o "app.get(\"/api/" \o name \o "/load\", async (c) => {\n"
    \o "  const result = await userShard.load" \o capitalizedName \o "(\n"
    \o "    user.id,\n    c.req.query(\"continuationToken\")\n  );\n"
    \o "  return send(c, Load" \o capitalizedName \o "ResponseSchema, result, 200);\n"
    \o "});\n\n"
    \o "app.post(\n  \"/api/" \o name \o "/save\",\n"
    \o "  zValidator(\"json\", Save" \o capitalizedName \o "RequestSchema),\n"
    \o "  async (c) => {\n"
    \o "    const result = await userShard.save" \o capitalizedName \o "(user.id, events);\n"
    \o "    return sendError(\n          c,\n"
    \o "          result.statusCode as ContentfulStatusCode,\n          result.error\n        );\n"
    \o "    return send(c, Save" \o capitalizedName \o "ResponseSchema, result, 200);\n"
    \o "  }\n);\n"

\* the ContentfulStatusCode import, m being the match of the hono import
StatusCodeImportWith(routesContent, m) ==
    IF ~m.found
    THEN LET firstImportEnd == IndexOfFrom(routesContent, "\n", IndexOf(routesContent, "import"))
         IN  IF firstImportEnd # -1
             THEN Splice(routesContent, firstImportEnd + 1,
                         "import { ContentfulStatusCode } from \"hono/utils/http-status\";\n")
             ELSE routesContent
    ELSE IF ~Includes(Trim(m.group), "ContentfulStatusCode")
         THEN ReplaceFirst(routesContent, Slice(routesContent, m.start, m.end),
                  "import { " \o StripTrailingComma(Trim(m.group))
                    \o ", ContentfulStatusCode } from \"hono/utils/http-status\";")
         ELSE routesContent

\* Step 1 of the routes patch: the ContentfulStatusCode import
AddStatusCodeImport(routesContent) ==
    IF Includes(routesContent, "ContentfulStatusCode") THEN routesContent
    ELSE StatusCodeImportWith(routesContent,
                              ImportMatch(routesContent, honoStatusModule, TRUE, FALSE, TRUE))

\* the schema imports, importMatch being the match of the schemas import in
\* routesContent, the text read from the file; updatedContent is patched
SchemaImportsWith(routesContent, updatedContent, capitalizedName, importMatch) ==
    IF importMatch.found
    THEN ReplaceFirst(updatedContent, Slice(routesContent, importMatch.start, importMatch.end),
             "import {" \o StripTrailingComma(Trim(importMatch.group))
               \o ",\n  Load" \o capitalizedName \o "ResponseSchema"
               \o ",\n  Save" \o capitalizedName \o "RequestSchema"
               \o ",\n  Save" \o capitalizedName \o "ResponseSchema"
               \o "\n} from \"@shared/types/request-response-schemas\";")
    ELSE LET firstImportIndex == IndexOf(updatedContent, "import")
         IN  IF firstImportIndex # -1
             THEN Splice(updatedContent, firstImportIndex,
                      "import {\n  Load" \o capitalizedName \o "ResponseSchema"
                        \o ",\n  Save" \o capitalizedName \o "RequestSchema"
                        \o ",\n  Save" \o capitalizedName \o "ResponseSchema"
                        \o ",\n} from \"@shared/types/request-response-schemas\";\n")
             ELSE updatedContent

\* Step 2 of the routes patch: the schema imports
AddSchemaImports(routesContent, updatedContent, capitalizedName) ==
    IF Includes(routesContent, "Load" \o capitalizedName \o "ResponseSchema") THEN updatedContent
    ELSE SchemaImportsWith(routesContent, updatedContent, capitalizedName,
                           ImportMatch(routesContent, schemasModule, FALSE, FALSE, FALSE))

\* an insertion that looks for the default export before the catch-all route
InsertRoutesExportFirst(updatedContent, block) ==
    LET catchallIndex == IndexOf(updatedContent, "app.get(\"*\"")
        exportDefaultIndex == LastIndexOf(updatedContent, "export default")
    IN  IF exportDefaultIndex # -1 THEN Splice(updatedContent, exportDefaultIndex, block \o "\n")
        ELSE IF catchallIndex # -1
             THEN Splice(updatedContent, catchallIndex, block \o "\n")
             ELSE updatedContent \o block

\* Step 3 of the routes patch: the route block goes before the catch-all
\* route, else before the last default export, else at the end of the file
InsertRoutes(updatedContent, block) ==
    LET catchallIndex == IndexOf(updatedContent, "app.get(\"*\"")
        exportDefaultIndex == LastIndexOf(updatedContent, "export default")
    IN  IF catchallIndex # -1 THEN Splice(updatedContent, catchallIndex, block \o "\n")
        ELSE IF exportDefaultIndex # -1
             THEN Splice(updatedContent, exportDefaultIndex, block \o "\n")
             ELSE updatedContent \o block

\* a routes patch that creates the routes file when there is none
RoutesPatchCreating(f, routesPath, capitalizedName, block) ==
    IF routesPath \notin DOMAIN f
    THEN Patched(WithFile(f, routesPath, block),
                 <<"start: Adding routes to index.ts...", "succeed: Added routes to index.ts">>,
                 {routesPath})
    ELSE Patched(WithFile(f, routesPath,
                     InsertRoutes(AddSchemaImports(f[routesPath], AddStatusCodeImport(f[routesPath]),
                                                   capitalizedName),
                                  block)),
                 <<"start: Adding routes to index.ts...", "succeed: Added routes to index.ts">>,
                 {routesPath})

\* The routes patch: both flows run the same steps and differ in the block
RoutesPatch(f, routesPath, capitalizedName, block) ==
    IF routesPath \notin DOMAIN f
    THEN Patched(f, <<"start: Adding routes to index.ts...",
                      "warn: Routes file not found, skipping route generation">>, {})
    ELSE Patched(WithFile(f, routesPath,
                     InsertRoutes(AddSchemaImports(f[routesPath], AddStatusCodeImport(f[routesPath]),
                                                   capitalizedName),
                                  block)),
                 <<"start: Adding routes to index.ts...", "succeed: Added routes to index.ts">>,
                 {routesPath})

addRoutesToIndex(f, name, routesPath) ==
    RoutesPatch(f, routesPath, toPascalCase(name).val,
                routesToAdd(name, toPascalCase(name).val))

addFeedRoutesToIndex(f, name, routesPath) ==
    RoutesPatch(f, routesPath, toPascalCase(name).val,
                feedRoutesToAdd(name, toPascalCase(name).val))

\* ------------------------------------------------------------------------
\* addUserShardFunctions / addFeedUserShardFunctions
\* ------------------------------------------------------------------------
\* s.split(",").map(i => i.trim())
RECURSIVE SplitCommaTrim(_)
SplitCommaTrim(s) ==
    LET i == IndexOf(s, ",")
    IN  IF i = -1 THEN <<Trim(s)>>
        ELSE <<Trim(Slice(s, 0, i))>> \o SplitCommaTrim(SliceFrom(s, i + 1))

\* list.join(", ")
RECURSIVE JoinComma(_)
JoinComma(list) ==
    IF list = <<>> THEN ""
    ELSE IF Len(list) = 1 THEN Head(list)
    ELSE Head(list) \o ", " \o JoinComma(Tail(list))

SeqRange(q) == {q[i] : i \in 1..Len(q)}

\* The generated methods of the dashboard flow (template text abridged)
functionsToAdd(name, capitalizedName) ==
    "\n  async load" \o capitalizedName \o "(userId: string): Promise<Load"
        \o capitalizedName \o "Response | ErrorResponse> {\n"
    \o "    return { data } as Load" \o capitalizedName \o "Response;\n"
    \o "  }\n\n"
    \o "  async save" \o capitalizedName \o "(\n    userId: string,\n    events: "
        \o capitalizedName \o "Event[]\n  ): Promise<Save" \o capitalizedName
        \o "Response | ErrorResponse> {\n"
    \o "    const results: " \o capitalizedName \o "EventResult[] = [];\n"
    \o "    const change: " \o capitalizedName \o "Change = { ...event };\n"
    \o "    const result = await handle" \o capitalizedName \o "Change(this.env.DB, this.shardDb, change);\n"
    \o "    return { error: \"Failed to save " \o name \o " changes\" };\n"
    \o "  }\n"

\* The generated methods of the feed flow
feedFunctionsToAdd(name, capitalizedName) ==
    "\n  async load" \o capitalizedName \o "(\n    userId: string,\n"
        \o "    continuationToken?: string\n  ): Promise<Load"
        \o capitalizedName \o "Response | ErrorResponse> {\n"
    \o "    return { feedData: [], continuationToken: undefined };\n"
    \o "  }\n\n"
    \o "  async save" \o capitalizedName \o "(\n    userId: string,\n    events: "
        \o capitalizedName \o "Event[]\n  ): Promise<Save" \o capitalizedName
        \o "Response | ErrorResponse> {\n"
    \o "    const results: " \o capitalizedName \o "EventResult[] = [];\n"
    \o "    const change: " \o capitalizedName \o "Change = { ...event };\n"
    \o "    const result = await handle" \o capitalizedName \o "Change(this.env.DB, this.shardDb, change);\n"
    \o "    return { error: \"Failed to save feed changes\" };\n"
    \o "  }\n"

\* importsToAdd.filter((imp) => !existingImportsList.includes(imp))
NewImportsList(existingImportsList, capitalizedName) ==
    SelectSeq((IF "ErrorResponse" \notin SeqRange(existingImportsList)
               THEN <<"ErrorResponse">> ELSE <<>>)
                \o <<"Load" \o capitalizedName \o "Response", "Save" \o capitalizedName \o "Response">>,
              LAMBDA imp : imp \notin SeqRange(existingImportsList))

\* the type imports, importMatch being the match of the schemas import
ShardTypeImportsWith(updatedContent, capitalizedName, importMatch) ==
    IF importMatch.found
    THEN LET existingImports == Trim(importMatch.group)
             newImportsList == NewImportsList(SplitCommaTrim(existingImports), capitalizedName)
         IN  IF Len(newImportsList) > 0
             THEN ReplaceFirst(updatedContent,
                      Slice(updatedContent, importMatch.start, importMatch.end),
                      "import { " \o StripTrailingComma(existingImports) \o ", "
                        \o JoinComma(newImportsList)
                        \o " } from \"@shared/types/request-response-schemas\";")
             ELSE updatedContent
    ELSE LET firstImportIndex == IndexOf(updatedContent, "import")
         IN  IF firstImportIndex # -1
             THEN Splice(updatedContent, firstImportIndex,
                      "import { ErrorResponse, Load" \o capitalizedName
                        \o "Response, Save" \o capitalizedName
                        \o "Response } from \"@shared/types/request-response-schemas\";\n")
             ELSE updatedContent

\* Step 1 of the shard patch: the request/response type imports
AddShardTypeImports(updatedContent, capitalizedName) ==
    IF Includes(updatedContent, "Load" \o capitalizedName \o "Response") THEN updatedContent
    ELSE ShardTypeImportsWith(updatedContent, capitalizedName,
                              ImportMatch(updatedContent, schemasModule, FALSE, TRUE, FALSE))

\* the names imported from the page's events file
EventNames(capitalizedName) ==
    capitalizedName \o "Event, " \o capitalizedName \o "Change, "
      \o capitalizedName \o "EventResult, handle" \o capitalizedName \o "Change"

\* the events imports, eventsImportMatch being the match of the events import;
\* a new import goes after the line of the schemas import
ShardEventImportsWith(updatedContent, capitalizedName, eventsModule, eventsImportMatch) ==
    IF eventsImportMatch.found
    THEN ReplaceFirst(updatedContent,
             Slice(updatedContent, eventsImportMatch.start, eventsImportMatch.end),
             "import { " \o StripTrailingComma(Trim(eventsImportMatch.group)) \o ", "
               \o EventNames(capitalizedName) \o " } from \"" \o eventsModule \o "\";")
    ELSE LET schemasImportIndex == IndexOf(updatedContent, schemasModule)
             lineEndIndex == IndexOfFrom(updatedContent, "\n", schemasImportIndex)
         IN  IF schemasImportIndex # -1
             THEN Splice(updatedContent,
                         \* slice(0, -1) and slice(-1) count from the end of the text
                         IF lineEndIndex >= 0 THEN lineEndIndex
                         ELSE IF Len(updatedContent) > 0 THEN Len(updatedContent) - 1 ELSE 0,
                         "\nimport { " \o EventNames(capitalizedName) \o " } from \""
                           \o eventsModule \o "\";")
             ELSE updatedContent

\* the events imports of a page whose events module is eventsModule.  The feed
\* patcher builds its pattern with new RegExp from a template string (live);
\* the dashboard patcher writes it as a regular expression literal, in which
\* ${camelName} is the end-of-input assertion followed by the literal text
\* {camelName}, so that pattern matches no text
ShardEventImportsOf(updatedContent, capitalizedName, eventsModule, live) ==
    ShardEventImportsWith(updatedContent, capitalizedName, eventsModule,
                          IF live THEN ImportMatch(updatedContent, eventsModule, FALSE, TRUE, FALSE)
                          ELSE NoMatch)

\* Step 2 of the shard patch: the imports from the page's events file
AddShardEventImports(updatedContent, capitalizedName, camelName, live) ==
    IF Includes(updatedContent, capitalizedName \o "Event") THEN updatedContent
    ELSE ShardEventImportsOf(updatedContent, capitalizedName,
                             "@shared/types/" \o camelName \o "Events", live)

\* the methods put at the end of the text
AppendFunctions(updatedContent, functions) == updatedContent \o functions \o "\n"

\* Step 3 of the shard patch: the methods go before the last closing brace
InsertFunctions(updatedContent, functions) ==
    LET lastBraceIndex == LastIndexOf(updatedContent, "}")
    IN  IF lastBraceIndex # -1 THEN Splice(updatedContent, lastBraceIndex, functions \o "\n")
        ELSE updatedContent

\* The shard patch: both flows run the same steps and differ in the methods
ShardPatch(f, userShardPath, capitalizedName, camelName, functions, live) ==
    IF userShardPath \notin DOMAIN f
    THEN Patched(f, <<"start: Adding UserShard functions...",
                      "warn: UserShard file not found, skipping UserShard generation">>, {})
    ELSE Patched(WithFile(f, userShardPath,
                     InsertFunctions(
                         AddShardEventImports(AddShardTypeImports(f[userShardPath], capitalizedName),
                                              capitalizedName, camelName, live),
                         functions)),
                 <<"start: Adding UserShard functions...", "succeed: Added UserShard functions">>,
                 {userShardPath})

addUserShardFunctions(f, name, userShardPath) ==
    ShardPatch(f, userShardPath, toPascalCase(name).val, toCamelCase(name).val,
               functionsToAdd(name, toPascalCase(name).val), FALSE)

addFeedUserShardFunctions(f, name, userShardPath) ==
    ShardPatch(f, userShardPath, toPascalCase(name).val, toCamelCase(name).val,
               feedFunctionsToAdd(name, toPascalCase(name).val), TRUE)

\* ------------------------------------------------------------------------
\* Harness for the name transforms: the input is any string over NameChars
\* of length at most MaxNameLen, or one of the longer sample names.
\* ------------------------------------------------------------------------
NameChars == {"a", "b", "1", "-", "A", " "}

RECURSIVE StringsUpTo(_)
StringsUpTo(n) ==
    IF n = 0 THEN {""}
    ELSE LET shorter == StringsUpTo(n - 1)
         IN  shorter \cup {s \o c : s \in shorter, c \in NameChars}

NameInputs ==
    StringsUpTo(MaxNameLen)
      \cup {"user-profile", "user-profile-settings", "my-page", "about", "class", "index"}

Unset == [ok |-> FALSE, val |-> "<not called>"]

Procs == {1, 2}

CmdIdle ==
    /\ pc = [p \in Procs |-> "idle"]
    /\ argName = [p \in Procs |-> ""]
    /\ ptype = [p \in Procs |-> "unset"]
    /\ yes = [p \in Procs |-> FALSE]
    /\ step = [p \in Procs |-> 0]
    /\ exitCode = [p \in Procs |-> -1]
    /\ log = [p \in Procs |-> <<>>]
    /\ fs0 = [p \in Procs |-> <<>>]
    /\ writes = [p \in Procs |-> {}]
    /\ io = [p \in Procs |-> FALSE]

NoCall == [op |-> "none", name |-> ""]

PatchIdle ==
    /\ pcall = NoCall
    /\ pprev = <<>>
    /\ plog = <<>>
    /\ pdone = {}

InitNames ==
    /\ tArg \in NameInputs
    /\ tPascal = Unset
    /\ tCamel = Unset
    /\ tSnake = Unset
    /\ fs = <<>>
    /\ CmdIdle
    /\ PatchIdle

CallToPascalCase ==
    /\ tPascal = Unset
    /\ tPascal' = toPascalCase(tArg)
    /\ UNCHANGED <<tArg, tCamel, tSnake, fs, cmdVars, patchVars>>

CallToCamelCase ==
    /\ tCamel = Unset
    /\ tCamel' = toCamelCase(tArg)
    /\ UNCHANGED <<tArg, tPascal, tSnake, fs, cmdVars, patchVars>>

CallToScreamingSnakeCase ==
    /\ tSnake = Unset
    /\ tSnake' = Ok(toScreamingSnakeCase(tArg))
    /\ UNCHANGED <<tArg, tPascal, tCamel, fs, cmdVars, patchVars>>

NextNames == CallToPascalCase \/ CallToCamelCase \/ CallToScreamingSnakeCase

SpecNames == InitNames /\ [][NextNames]_vars

\* ------------------------------------------------------------------------
\* Projects the commands run in
\* ------------------------------------------------------------------------
routesPath == "src/index.ts"

userShardPath == "src/durable-objects/user-shard/UserShard.ts"

schemasPath == "shared/types/request-response-schemas.ts"

\* vite.config.ts of the template (abridged to the build section)
ViteConfigText ==
    "export default defineConfig({\n  build: {\n    rollupOptions: {\n"
    \o "      input: {\n        main: resolve(__dirname, \"src/client/index.html\"),\n      },\n"
    \o "    },\n  },\n});\n"

\* a vite config without a rollupOptions.input mapping
ViteConfigNoInput == "export default defineConfig({\n  plugins: [solid()],\n});\n"

\* a routes file with schema import, catch-all route and default export
RoutesWithCatchAll ==
    "import { Hono } from \"hono\";\n"
    \o "import { ErrorResponseSchema } from \"@shared/types/request-response-schemas\";\n\n"
    \o "const app = new Hono();\n\n"
    \o "app.get(\"/api/health\", (c) => c.text(\"ok\"));\n\n"
    \o "app.get(\"*\", (c) => c.notFound());\n\n"
    \o "export default app;\n"

\* a routes file with a default export and no catch-all route; its first
\* import statement spans three lines
RoutesExportOnly ==
    "import {\n  Hono,\n} from \"hono\";\n\n"
    \o "const app = new Hono();\n\n"
    \o "app.get(\"/api/health\", (c) => c.text(\"ok\"));\n\n"
    \o "export default app;\n"

\* a routes file with neither a catch-all route nor a default export
RoutesBare ==
    "import { Hono } from \"hono\";\n"
    \o "import { ErrorResponseSchema, SaveUserProfileRequestSchema } from \"@shared/types/request-response-schemas\";\n\n"
    \o "export const app = new Hono();\n\n"
    \o "app.get(\"/api/health\", (c) => c.text(\"ok\"));\n"

ShardText ==
    "import { DurableObject } from \"cloudflare:workers\";\n"
    \o "import type { ErrorResponse } from \"@shared/types/request-response-schemas\";\n\n"
    \o "export class UserShard extends DurableObject {\n"
    \o "  async ping() {\n    return \"pong\";\n  }\n}\n"

ShardNoSchemaImport ==
    "import { DurableObject } from \"cloudflare:workers\";\n\n"
    \o "export class UserShard extends DurableObject {\n}\n"

SchemasText ==
    "import { z } from \"zod\";\n\nexport const ErrorResponseSchema = z.object({});\n"

\* a schemas file that holds the declarations generated for user-profile by an
\* earlier run (abridged)
SchemasWithPage ==
    SchemasText
    \o "\n// UserProfile API Types\n"
    \o "export const LoadUserProfileResponseSchema = z.object({});\n"
    \o "export type LoadUserProfileResponse = z.infer<typeof LoadUserProfileResponseSchema>;"

\* a shard file without a closing brace: the class is defined elsewhere
ShardNoBrace == "import \"./polyfill\";\nexport * from \"./UserShardImpl\";\n"

ClientIndex == "src/client/index.html" :> "<!doctype html>"

\* a project in which the static page "ab" was generated before
\* a project that has the page ab already; its shard file has no import line
ProjectWithPage ==
    WithFile(updateViteConfig(ClientIndex @@ (viteConfigPath :> ViteConfigText)
                                @@ (userShardPath :> "export class UserShard {\n}\n"),
                              "ab").fs,
             "src/client/ab/index.html", "<!doctype html>\n<title>Ab - Template</title>\n")

\* a main server file with an import, the app and its listen call
ServerIndexText ==
    "import { Hono } from 'hono';\n\n"
    \o "const app = new Hono();\n\n"
    \o "app.listen(3000);\n"

\* a project with every collaborator file
FullProject ==
    ClientIndex @@ (viteConfigPath :> ViteConfigText) @@ (routesPath :> RoutesWithCatchAll)
      @@ (userShardPath :> ShardText) @@ (schemasPath :> SchemasText)
      @@ ("src/server/index.ts" :> ServerIndexText)

Projects ==
    { FullProject,
      ProjectWithPage,
      ClientIndex @@ (viteConfigPath :> ViteConfigText) @@ (routesPath :> RoutesExportOnly)
        @@ (userShardPath :> ShardNoSchemaImport) @@ (schemasPath :> SchemasWithPage)
        @@ ("src/server/index.ts" :> "export const app = createApp();"),
      ClientIndex @@ (viteConfigPath :> ViteConfigNoInput) @@ (routesPath :> RoutesBare)
        @@ (userShardPath :> ShardNoBrace),
      ClientIndex }

\* a project, with no command running and no patcher called yet
Init ==
    /\ fs \in Projects
    /\ CmdIdle
    /\ PatchIdle
    /\ tArg = ""
    /\ tPascal = Unset
    /\ tCamel = Unset
    /\ tSnake = Unset

\* ------------------------------------------------------------------------
\* Harness for the patchers: each step applies one patcher, for one page
\* name, to the files of the project.
\* ------------------------------------------------------------------------
PatchNames == {"admin", "min", "user-profile"}

CallPatcher(op, n, result) ==
    /\ Cardinality(pdone) + (IF pcall = NoCall THEN 0 ELSE 1) < MaxCalls
    /\ pcall' = [op |-> op, name |-> n]
    /\ pprev' = fs
    /\ pdone' = IF pcall = NoCall THEN pdone ELSE pdone \cup {pcall}
    /\ fs' = result.fs
    /\ plog' = result.log
    /\ UNCHANGED <<cmdVars, nameVars>>

CallUpdateViteConfig ==
    \E n \in PatchNames : CallPatcher("updateViteConfig", n, updateViteConfig(fs, n))

CallAddRoutesToIndex ==
    \E n \in PatchNames : CallPatcher("addRoutesToIndex", n, addRoutesToIndex(fs, n, routesPath))

CallAddFeedRoutesToIndex ==
    \E n \in PatchNames :
        CallPatcher("addFeedRoutesToIndex", n, addFeedRoutesToIndex(fs, n, routesPath))

CallAddUserShardFunctions ==
    \E n \in PatchNames :
        CallPatcher("addUserShardFunctions", n, addUserShardFunctions(fs, n, userShardPath))

CallAddFeedUserShardFunctions ==
    \E n \in PatchNames :
        CallPatcher("addFeedUserShardFunctions", n, addFeedUserShardFunctions(fs, n, userShardPath))

\* process.cwd()
cwd == "/project"

\* path.join(a, b) for two non-empty paths without redundant separators
PathJoin(a, b) == a \o "/" \o b

\* the file a path names, as a path relative to the working directory
Resolve(path) ==
    IF MatchAt(path, cwd \o "/", 0) THEN SliceFrom(path, Len(cwd) + 1) ELSE path

Providers == {"stripe", "lemonsqueezy"}

serverFile == "src/server/index.ts"

\* updateMainServer without its two includes checks
updateMainServerUnguarded(f, routeName) ==
    IF ~pathExists(f, Resolve(PathJoin(cwd, serverFile)))
    THEN Patched(f, <<"warn: src/server/index.ts not found">>, {})
    ELSE LET content == f[serverFile]
             router == IF Includes(routeName, "webhook") THEN "webhookRouter"
                       ELSE routeName \o "Router"
             nextLineIndex == IndexOfFrom(content, "\n", LastIndexOf(content, "import "))
             withImport == Slice(content, 0, nextLineIndex + 1)
                             \o "import { " \o router \o " } from './"
                             \o (IF Includes(routeName, "webhook") THEN routeName
                                 ELSE "api/" \o routeName) \o "';"
                             \o "\n" \o SliceFrom(content, nextLineIndex + 1)
             listenIndex == IndexOf(withImport, "app.listen")
         IN  Patched(WithFile(f, serverFile,
                              IF listenIndex # -1
                              THEN Splice(withImport, listenIndex,
                                          "app.route('/', " \o router \o ");" \o "\n\n")
                              ELSE withImport),
                     <<>>, {serverFile})

\* updateMainServer(routeName): the import of the router after the last
\* import line, its mount before app.listen, each when the text lacks it
updateMainServer(f, routeName) ==
    IF ~pathExists(f, Resolve(PathJoin(cwd, serverFile)))
    THEN Patched(f, <<"warn: src/server/index.ts not found">>, {})
    ELSE LET content == f[serverFile]
             router == IF Includes(routeName, "webhook") THEN "webhookRouter"
                       ELSE routeName \o "Router"
             importStatement == "import { " \o router \o " } from './"
                                  \o (IF Includes(routeName, "webhook") THEN routeName
                                      ELSE "api/" \o routeName) \o "';"
             nextLineIndex == IndexOfFrom(content, "\n", LastIndexOf(content, "import "))
             withImport == IF ~Includes(content, importStatement)
                           THEN Slice(content, 0, nextLineIndex + 1) \o importStatement
                                  \o "\n" \o SliceFrom(content, nextLineIndex + 1)
                           ELSE content
             mountStatement == "app.route('/', " \o router \o ");"
             listenIndex == IndexOf(withImport, "app.listen")
         IN  Patched(WithFile(f, serverFile,
                              IF ~Includes(withImport, mountStatement) /\ listenIndex # -1
                              THEN Splice(withImport, listenIndex, mountStatement \o "\n\n")
                              ELSE withImport),
                     <<>>, {serverFile})

\* addApiEndpoint(name, content): the endpoint file, then the main server file
addApiEndpoint(f, name, content) ==
    updateMainServer(WithFile(f, Resolve(PathJoin(cwd, "src/server/api/" \o name \o ".ts")),
                              content),
                     name)

\* addWebhookEndpoint(provider, content)
addWebhookEndpoint(f, provider, content) ==
    updateMainServer(WithFile(f, Resolve(PathJoin(cwd, "src/server/webhooks/" \o provider \o ".ts")),
                              content),
                     "webhooks/" \o provider)

\* the module text the pricing command generates for a provider (its tier
\* table and helper functions are left out)
abstractionsCode(provider) ==
    "\nimport { db } from '../db';\n"
      \o "export async function check(userId: string, feature: string, quantity = 1): Promise<boolean> {\n"
      \o "  const tier = Object.values(PRICING_TIERS).find(t => t." \o provider
      \o "PriceId === sub." \o provider \o "PriceId);\n}\n"
      \o "export async function track(userId: string, metric: string, quantity = 1): Promise<void> {\n}\n"
      \o "export async function changeSubscription(userId: string, newTier: string) {\n}\n"
      \o "export { PRICING_TIERS as tiers };\n"

abstractionsFile == "src/server/pricing/index.ts"

indexContent == "export { check, track, changeSubscription, tiers } from './index';"

\* createPricingAbstractions(content): two fs.outputFile calls, the first on
\* the absolute path of abstractionsFile, the second on the relative one
createPricingAbstractions(f, content) ==
    LET fullPath == PathJoin(cwd, abstractionsFile)
        written == WithFile(f, Resolve(fullPath), content)
    IN  [fs |-> WithFile(written, Resolve("src/server/pricing/index.ts"), indexContent),
         log |-> <<>>]

CallCreatePricingAbstractions ==
    \E provider \in Providers :
        CallPatcher("createPricingAbstractions", provider,
                    createPricingAbstractions(fs, abstractionsCode(provider)))

\* the ai-assistant command adds its chat endpoint
CallAddApiEndpoint ==
    CallPatcher("addApiEndpoint", "ai",
                addApiEndpoint(fs, "ai", "export const aiRouter = new Hono();\n"))

\* the pricing command adds the webhook endpoint of the provider
CallAddWebhookEndpoint ==
    \E provider \in Providers :
        CallPatcher("addWebhookEndpoint", provider,
                    addWebhookEndpoint(fs, provider,
                        "export const webhookRouter = new Hono();\n// " \o provider \o "\n"))

NextPatch ==
    \/ CallAddApiEndpoint
    \/ CallAddWebhookEndpoint
    \/ CallCreatePricingAbstractions
    \/ CallUpdateViteConfig
    \/ CallAddRoutesToIndex
    \/ CallAddFeedRoutesToIndex
    \/ CallAddUserShardFunctions
    \/ CallAddFeedUserShardFunctions

SpecPatch == Init /\ [][NextPatch]_vars

\* ------------------------------------------------------------------------
\* The page flows of create-page: the file system steps in program order.
\* Generated file texts are abridged to a line that carries the names.
\* ------------------------------------------------------------------------
Emit(path, text) == [kind |-> "emit", path |-> path, text |-> text]

Step(kind, text) == [kind |-> kind, path |-> "", text |-> text]

PageDir(name) == "src/client/" \o name

EventsPath(camelName) == "shared/types/" \o camelName \o "Events.ts"

typesToAppend(capitalizedName, camelName) ==
    "\n// " \o capitalizedName \o " API Types\n"
    \o "import type { " \o capitalizedName \o "Event, " \o capitalizedName
        \o "EventResult } from \"./" \o camelName \o "Events\";\n\n"
    \o "export const Load" \o capitalizedName \o "RequestSchema = z.object({});\n"
    \o "export const Load" \o capitalizedName \o "ResponseSchema = z.object({});\n"
    \o "export type Load" \o capitalizedName \o "Response = z.infer<typeof Load"
        \o capitalizedName \o "ResponseSchema>;"

feedTypesToAppend(capitalizedName, camelName) ==
    "\n// " \o capitalizedName \o " API Types\n"
    \o "import type { " \o capitalizedName \o "Event, " \o capitalizedName
        \o "EventResult } from \"./" \o camelName \o "Events\";\n\n"
    \o "export const Load" \o capitalizedName
        \o "RequestSchema = z.object({\n  continuationToken: z.string().optional(),\n});\n"
    \o "export const Load" \o capitalizedName \o "ResponseSchema = z.object({});\n"
    \o "export type Load" \o capitalizedName \o "Response = z.infer<typeof Load"
        \o capitalizedName \o "ResponseSchema>;"

\* the schemas file the flows create when there is none
SchemasPreamble ==
    "import { z } from \"zod\";\n\n"
    \o "export const ErrorResponseSchema = z.object({\n  success: z.literal(false),\n"
    \o "  error: z.string(),\n  statusCode: z.number(),\n});\n\n"
    \o "export type ErrorResponse = z.infer<typeof ErrorResponseSchema>;\n"

createStaticPageFlow(name, capitalizedName) ==
        << Emit(PageDir(name) \o "/index.html",
                "<!doctype html>\n<title>" \o capitalizedName \o " - Template</title>\n"),
           Step("vite", "") >>

createDashboardPageFlow(name, capitalizedName, camelName, dir) ==
        << Emit(dir \o "index.html",
                "<!DOCTYPE html>\n<title>" \o capitalizedName \o " - Template</title>\n"),
           Emit(dir \o "index.tsx", "import " \o capitalizedName \o " from \"./" \o capitalizedName \o "\";\n"),
           Emit(dir \o capitalizedName \o ".tsx", "export default function " \o capitalizedName \o "() {}\n"),
           Emit(dir \o capitalizedName \o ".tsx", "export default function " \o capitalizedName \o "() {}\n"),
           Emit(dir \o capitalizedName \o "Context.tsx", "export function use" \o capitalizedName \o "() {}\n"),
           Emit(dir \o camelName \o "EventProcessor.ts",
                "export function process" \o capitalizedName \o "EventQueue() {}\n"),
           Step("vite", ""),
           Emit(dir \o capitalizedName \o "ApiClient.ts",
                "export const " \o camelName \o "ApiClient = new " \o capitalizedName \o "ApiClient();"),
           Step("schemas", typesToAppend(capitalizedName, camelName)),
           Emit(dir \o capitalizedName \o "AutosaveService.ts",
                "export class " \o capitalizedName \o "AutosaveService {}\n"),
           Emit(dir \o capitalizedName \o "UndoRedoService.ts",
                "export class " \o capitalizedName \o "UndoRedoService {}\n"),
           Step("routes", ""),
           Step("shard", ""),
           Emit(EventsPath(camelName), "export type " \o capitalizedName \o "Event = Sample"
                                          \o capitalizedName \o "Event;\n"),
           Step("vite", "") >>

createFeedPageFlow(name, capitalizedName, camelName, dir) ==
        << Emit(dir \o "index.html",
                "<!DOCTYPE html>\n<title>" \o capitalizedName \o " - Template</title>\n"),
           Emit(dir \o "index.tsx", "import " \o capitalizedName \o " from \"./" \o capitalizedName \o "\";\n"),
           Emit(dir \o capitalizedName \o ".tsx", "export default function " \o capitalizedName \o "() {}\n"),
           Emit(dir \o capitalizedName \o "Context.tsx", "export function use" \o capitalizedName \o "() {}\n"),
           Emit(dir \o camelName \o "EventProcessor.ts",
                "export function process" \o capitalizedName \o "EventQueue() {}\n"),
           Step("vite", ""),
           Emit(dir \o capitalizedName \o "ApiClient.ts",
                "export const " \o camelName \o "ApiClient = new " \o capitalizedName \o "ApiClient();"),
           Step("schemas", feedTypesToAppend(capitalizedName, camelName)),
           Emit(dir \o capitalizedName \o "AutosaveService.ts",
                "export class " \o capitalizedName \o "AutosaveService {}\n"),
           Emit(dir \o capitalizedName \o "UndoRedoService.ts",
                "export class " \o capitalizedName \o "UndoRedoService {}\n"),
           Step("routes", ""),
           Step("shard", ""),
           Emit(EventsPath(camelName), "export type " \o capitalizedName \o "Event = Sample"
                                          \o capitalizedName \o "Event;\n") >>

\* the flow the action handler picks for options.type
FlowOf(type, name) ==
    IF type = "static" THEN createStaticPageFlow(name, toPascalCase(name).val)
    ELSE IF type = "feed"
         THEN createFeedPageFlow(name, toPascalCase(name).val, toCamelCase(name).val,
                                 PageDir(name) \o "/")
    ELSE createDashboardPageFlow(name, toPascalCase(name).val, toCamelCase(name).val,
                                 PageDir(name) \o "/")

\* ------------------------------------------------------------------------
\* The create-page command, one action per step of its action handler
\* ------------------------------------------------------------------------
\* names given on the command line: one for each naming rule, and valid ones
CmdNames ==
    {"", " ", "a b", "Ab", "a--b", "a--", "a-", "class", "import", "index", "default",
     "constructor", "prototype", "ab", "user-profile"}

Types == {"static", "dashboard", "feed"}

Finished(p) == pc[p] \in {"done", "exited"}

\* the command exits with status 1 after printing msg
Exit1(p, msg) ==
    /\ pc' = [pc EXCEPT ![p] = "exited"]
    /\ exitCode' = [exitCode EXCEPT ![p] = 1]
    /\ log' = [log EXCEPT ![p] = Append(@, msg)]

\* the command line is parsed and the action handler starts
Invoke(p) ==
    /\ pc[p] = "idle"
    /\ \A q \in Procs : q < p => Finished(q)
    /\ \E n \in CmdNames : argName' = [argName EXCEPT ![p] = n]
    /\ pc' = [pc EXCEPT ![p] = "validate"]
    /\ fs0' = [fs0 EXCEPT ![p] = fs]
    /\ UNCHANGED <<fs, ptype, yes, step, exitCode, log, writes, io, nameVars, patchVars>>

\* a handler that goes on to the existence check whatever the name is
ValidateNoExit(p) ==
    /\ pc[p] = "validate"
    /\ pc' = [pc EXCEPT ![p] = "checkExists"]
    /\ UNCHANGED <<fs, argName, ptype, yes, step, exitCode, log, fs0, writes, io, nameVars, patchVars>>

\* the naming checks: the first one that fails ends the command
Validate(p) ==
    /\ pc[p] = "validate"
    /\ IF ValidationError(argName[p]) # ""
       THEN Exit1(p, "error: " \o ValidationError(argName[p]))
       ELSE /\ pc' = [pc EXCEPT ![p] = "checkExists"]
            /\ UNCHANGED <<exitCode, log>>
    /\ UNCHANGED <<fs, argName, ptype, yes, step, fs0, writes, io, nameVars, patchVars>>

\* a handler without the collision guard
CheckExistsNoGuard(p) ==
    /\ pc[p] = "checkExists"
    /\ io' = [io EXCEPT ![p] = TRUE]
    /\ pc' = [pc EXCEPT ![p] = "prompt"]
    /\ UNCHANGED <<fs, argName, ptype, yes, step, exitCode, log, fs0, writes, nameVars, patchVars>>

\* a guard that also turns down a name another running invocation holds
CheckExistsExclusive(p) ==
    /\ pc[p] = "checkExists"
    /\ io' = [io EXCEPT ![p] = TRUE]
    /\ IF \/ pathExists(fs, PageDir(argName[p]))
          \/ \E q \in Procs \ {p} : argName[q] = argName[p] /\ pc[q] \in {"prompt", "flow"}
       THEN Exit1(p, "error: Page already exists")
       ELSE /\ pc' = [pc EXCEPT ![p] = "prompt"]
            /\ UNCHANGED <<exitCode, log>>
    /\ UNCHANGED <<fs, argName, ptype, yes, step, fs0, writes, nameVars, patchVars>>

\* the collision guard: fs.pathExists(`src/client/${name}`)
CheckExists(p) ==
    /\ pc[p] = "checkExists"
    /\ io' = [io EXCEPT ![p] = TRUE]
    /\ IF pathExists(fs, PageDir(argName[p]))
       THEN Exit1(p, "error: Page already exists")
       ELSE /\ pc' = [pc EXCEPT ![p] = "prompt"]
            /\ UNCHANGED <<exitCode, log>>
    /\ UNCHANGED <<fs, argName, ptype, yes, step, fs0, writes, nameVars, patchVars>>

\* the confirmation step without the return after "Page creation cancelled"
PromptNoReturn(p) ==
    /\ pc[p] = "prompt"
    /\ \E y \in BOOLEAN, answer \in BOOLEAN, t \in Types :
        /\ yes' = [yes EXCEPT ![p] = y]
        /\ pc' = [pc EXCEPT ![p] = "flow"]
        /\ ptype' = [ptype EXCEPT ![p] = t]
        /\ step' = [step EXCEPT ![p] = 1]
        /\ log' = [log EXCEPT ![p] = IF ~y /\ ~answer
                                      THEN Append(@, "Page creation cancelled") ELSE @]
        /\ UNCHANGED exitCode
    /\ UNCHANGED <<fs, argName, fs0, writes, io, nameVars, patchVars>>

\* the confirmation prompt, skipped with -y; the flow is picked by --type
Prompt(p) ==
    /\ pc[p] = "prompt"
    /\ \E y \in BOOLEAN, answer \in BOOLEAN, t \in Types :
        /\ yes' = [yes EXCEPT ![p] = y]
        /\ IF ~y /\ ~answer
           THEN /\ pc' = [pc EXCEPT ![p] = "done"]
                /\ exitCode' = [exitCode EXCEPT ![p] = 0]
                /\ log' = [log EXCEPT ![p] = Append(@, "Page creation cancelled")]
                /\ UNCHANGED <<ptype, step>>
           ELSE /\ pc' = [pc EXCEPT ![p] = "flow"]
                /\ ptype' = [ptype EXCEPT ![p] = t]
                /\ step' = [step EXCEPT ![p] = 1]
                /\ UNCHANGED <<exitCode, log>>
    /\ UNCHANGED <<fs, argName, fs0, writes, io, nameVars, patchVars>>

\* the flows of the names that pass validation, computed once
FlowTable ==
    [t \in Types, n \in {m \in CmdNames : ValidationError(m) = ""} |-> FlowOf(t, n)]

Flow(p) == FlowTable[ptype[p], argName[p]]

\* the step of its flow the command is at, NoStep when it is at none
NoStep == [kind |-> "none", path |-> "", text |-> ""]

StepAt(flow, k) == IF k >= 1 /\ k <= Len(flow) THEN flow[k] ELSE NoStep

CurrentStep(p) == IF pc[p] = "flow" THEN StepAt(Flow(p), step[p]) ELSE NoStep

AtStep(p, kind) == CurrentStep(p).kind = kind

\* a flow step ran with result r (files, messages, written paths): on to the
\* next step
StepDone(p, r) ==
    /\ fs' = r.fs
    /\ writes' = [writes EXCEPT ![p] = @ \cup r.wrote]
    /\ log' = [log EXCEPT ![p] = @ \o r.log]
    /\ step' = [step EXCEPT ![p] = @ + 1]
    /\ io' = [io EXCEPT ![p] = TRUE]
    /\ UNCHANGED <<pc, argName, ptype, yes, exitCode, fs0, nameVars, patchVars>>

\* fs.outputFile(path, text)
outputFile(f, path, text) == Patched(WithFile(f, path, text), <<>>, {path})

\* the result r followed by spinner.succeed(msg)
Succeed(r, msg) == Patched(r.fs, r.log \o <<"succeed: " \o msg>>, r.wrote)

\* fs.outputFile(path, text) of a generated file
EmitFile(p) ==
    /\ AtStep(p, "emit")
    /\ StepDone(p, outputFile(fs, CurrentStep(p).path, CurrentStep(p).text))

\* spinner.start; await updateViteConfig(name); spinner.succeed
UpdateVite(p) ==
    /\ AtStep(p, "vite")
    /\ StepDone(p, Succeed(updateViteConfig(fs, argName[p]), "Updated vite.config.ts"))

\* a schemas step that writes a fresh file whatever is there
UpdateSchemasFresh(p) ==
    /\ AtStep(p, "schemas")
    /\ StepDone(p, Succeed(outputFile(fs, schemasPath, SchemasPreamble \o CurrentStep(p).text),
                           "Created API client and updated types"))

\* the schemas step: append the page's types, or create the file
UpdateSchemas(p) ==
    /\ AtStep(p, "schemas")
    /\ StepDone(p, Succeed(outputFile(fs, schemasPath,
                               (IF pathExists(fs, schemasPath) THEN fs[schemasPath]
                                ELSE SchemasPreamble) \o CurrentStep(p).text),
                           "Created API client and updated types"))

\* addRoutesToIndex / addFeedRoutesToIndex
PatchRoutes(p) ==
    /\ AtStep(p, "routes")
    /\ StepDone(p, IF ptype[p] = "feed" THEN addFeedRoutesToIndex(fs, argName[p], routesPath)
                   ELSE addRoutesToIndex(fs, argName[p], routesPath))

\* addUserShardFunctions / addFeedUserShardFunctions
PatchShard(p) ==
    /\ AtStep(p, "shard")
    /\ StepDone(p, IF ptype[p] = "feed"
                   THEN addFeedUserShardFunctions(fs, argName[p], userShardPath)
                   ELSE addUserShardFunctions(fs, argName[p], userShardPath))

\* the flow returned: the success message, exit status 0
Finish(p) ==
    /\ pc[p] = "flow"
    /\ AtStep(p, "none")
    /\ pc' = [pc EXCEPT ![p] = "done"]
    /\ exitCode' = [exitCode EXCEPT ![p] = 0]
    /\ log' = [log EXCEPT ![p] = Append(@, "success: page created successfully")]
    /\ UNCHANGED <<fs, argName, ptype, yes, step, fs0, writes, io, nameVars, patchVars>>

\* a catch block that puts the files back as they were when the command started
IOFailureRollback(p) ==
    /\ pc[p] = "flow"
    /\ ~AtStep(p, "none")
    /\ io' = [io EXCEPT ![p] = TRUE]
    /\ Exit1(p, "fail: Page creation failed")
    /\ fs' = fs0[p]
    /\ UNCHANGED <<argName, ptype, yes, step, fs0, writes, nameVars, patchVars>>

\* a file system call of the current step rejects: the catch block reports
\* the failure and exits with status 1
IOFailure(p) ==
    /\ pc[p] = "flow"
    /\ ~AtStep(p, "none")
    /\ io' = [io EXCEPT ![p] = TRUE]
    /\ Exit1(p, "fail: Page creation failed")
    /\ UNCHANGED <<fs, argName, ptype, yes, step, fs0, writes, nameVars, patchVars>>

\* a step of the handler after the command line is parsed
Proceed(p) ==
    \/ Validate(p)
    \/ CheckExists(p)
    \/ Prompt(p)
    \/ EmitFile(p)
    \/ UpdateVite(p)
    \/ UpdateSchemas(p)
    \/ PatchRoutes(p)
    \/ PatchShard(p)
    \/ Finish(p)
    \/ IOFailure(p)

CmdStep(p) == Invoke(p) \/ Proceed(p)

\* one invocation of create-page
Next == CmdStep(1)

Spec == Init /\ [][Next]_vars

\* two invocations, the second one after the first has ended
NextRerun == \E p \in Procs : CmdStep(p)

SpecRerun == Init /\ [][NextRerun]_vars

RaceNames == {"ab"}

\* an invocation started while another one may be running
InvokeConcurrently(p) ==
    /\ pc[p] = "idle"
    /\ \E n \in RaceNames : argName' = [argName EXCEPT ![p] = n]
    /\ pc' = [pc EXCEPT ![p] = "validate"]
    /\ fs0' = [fs0 EXCEPT ![p] = fs]
    /\ UNCHANGED <<fs, ptype, yes, step, exitCode, log, writes, io, nameVars, patchVars>>

\* two invocations in two processes, their steps interleaved
NextRace == \E p \in Procs : InvokeConcurrently(p) \/ Proceed(p)

\* the projects the two invocations are started in
RaceProjects == {FullProject, ProjectWithPage}

InitRace ==
    /\ fs \in RaceProjects
    /\ CmdIdle
    /\ PatchIdle
    /\ tArg = ""
    /\ tPascal = Unset
    /\ tCamel = Unset
    /\ tSnake = Unset

SpecRace == InitRace /\ [][NextRace]_vars

\* ------------------------------------------------------------------------
\* Properties of the name transforms (checked under SpecNames)
\* ------------------------------------------------------------------------
HasHyphen(s) == Includes(s, "-")

HasUpper(s) == \E i \in 0..(Len(s) - 1) : IsUpper(CharAt(s, i))

\* Character walk: hyphens vanish, a character that starts the string or
\* follows a hyphen is uppercased (when capFirst allows it), the rest is kept.
WalkCase(s, capFirst) ==
    Join([i \in 1..Len(s) |->
            LET c == CharAt(s, i - 1)
            IN  IF c = "-" THEN ""
                ELSE IF (i = 1 /\ capFirst) \/ (i > 1 /\ CharAt(s, i - 2) = "-") THEN UpperChar(c)
                ELSE c])

\* C6: for a name that passes validation, toPascalCase is the hyphen-separated
\* segments with each first character uppercased, and toCamelCase keeps the
\* first segment and uppercases the first character of the others;
\* user-profile gives UserProfile and userProfile.
C6_CaseTransforms ==
    ValidationError(tArg) = "" =>
        /\ tPascal # Unset => tPascal = Ok(WalkCase(tArg, TRUE))
        /\ tCamel # Unset => tCamel = Ok(WalkCase(tArg, FALSE))
        /\ (tArg = "user-profile" /\ tPascal # Unset) => tPascal.val = "UserProfile"
        /\ (tArg = "user-profile" /\ tCamel # Unset) => tCamel.val = "userProfile"

C6_Witness ==
    tArg = "user-profile" /\ tPascal = Ok("UserProfile") /\ tCamel = Ok("userProfile")

\* C7: on every string of the shape ^[a-z][a-z0-9-]*$ (consecutive and trailing
\* hyphens included) both transforms return a value, toPascalCase starts with an
\* uppercase letter, toCamelCase with a lowercase letter, neither has a hyphen.
C7_TotalOnShape ==
    ShapeOk(tArg) =>
        /\ tPascal # Unset =>
              tPascal.ok /\ IsUpper(CharAt(tPascal.val, 0)) /\ ~HasHyphen(tPascal.val)
        /\ tCamel # Unset =>
              tCamel.ok /\ IsLower(CharAt(tCamel.val, 0)) /\ ~HasHyphen(tCamel.val)

C7_Witness == tArg = "a--b" /\ tPascal = Ok("AB") /\ tCamel = Ok("aB")

\* a hyphen-separated piece of s that is non-empty and all digits
HasDigitOnlySegment(s) ==
    \E a \in 0..(Len(s) - 1), b \in 1..Len(s) :
        /\ a < b
        /\ \A i \in a..(b - 1) : IsDigit(CharAt(s, i))
        /\ (a = 0 \/ CharAt(s, a - 1) = "-")
        /\ (b = Len(s) \/ CharAt(s, b) = "-")

OnlyLowerDigitHyphen(s) ==
    \A i \in 0..(Len(s) - 1) :
        IsLower(CharAt(s, i)) \/ IsDigit(CharAt(s, i)) \/ CharAt(s, i) = "-"

\* C8: an input with an uppercase letter makes both transforms throw, while an
\* input of lowercase letters, digits and hyphens with a digit-only segment is
\* accepted.
C8_UppercaseRejected ==
    /\ HasUpper(tArg) =>
          /\ tPascal # Unset => ~tPascal.ok
          /\ tCamel # Unset => ~tCamel.ok
    /\ (OnlyLowerDigitHyphen(tArg) /\ HasDigitOnlySegment(tArg)) =>
          /\ tPascal # Unset => tPascal.ok
          /\ tCamel # Unset => tCamel.ok

C8_Witness ==
    /\ tArg = "a-A"
    /\ tPascal # Unset /\ ~tPascal.ok
    /\ tCamel # Unset /\ ~tCamel.ok
    /\ toPascalCase("a-1") = Ok("A1")
    /\ toCamelCase("a-1") = Ok("a1")

\* ------------------------------------------------------------------------
\* Properties of the patchers (checked under SpecPatch)
\* ------------------------------------------------------------------------
RoutesOps == {"addRoutesToIndex", "addFeedRoutesToIndex"}

\* the route block the last patcher call generates
LastBlock ==
    IF pcall.op = "addFeedRoutesToIndex"
    THEN feedRoutesToAdd(pcall.name, toPascalCase(pcall.name).val)
    ELSE routesToAdd(pcall.name, toPascalCase(pcall.name).val)

\* number of places where p occurs in s
Occurrences(s, p) == Cardinality({i \in 0..(Len(s) - Len(p)) : MatchAt(s, p, i)})

\* C1: a second route patch with the same page name leaves the routes file
\* byte-identical: it is a no-op and the route block is not duplicated.
C1_SecondRoutePatchNoOp ==
    (pcall.op \in RoutesOps /\ pcall \in pdone /\ routesPath \in DOMAIN pprev) =>
        /\ fs[routesPath] = pprev[routesPath]
        /\ Occurrences(fs[routesPath], LastBlock) = 1

\* number of entries of the text whose key is exactly n
KeyCount(text, n) ==
    Cardinality({i \in 1..(Len(text) - Len(n) - 1) :
                    /\ MatchAt(text, n \o ":", i)
                    /\ CharAt(text, i - 1) \in WhiteSpace \cup {"{", ","}})

\* C4: after updateViteConfig(n) calls on a vite config with an input mapping,
\* the mapping has exactly one entry keyed n, pointing at the page's
\* index.html, and a repeated call leaves the file unchanged.
C4_OneViteEntry ==
    (/\ pcall.op = "updateViteConfig"
     /\ viteConfigPath \in DOMAIN pprev
     /\ InputMatch(pprev[viteConfigPath]).found
     /\ KeyCount(InputMatch(pprev[viteConfigPath]).group, pcall.name) <= 1) =>
        /\ KeyCount(InputMatch(fs[viteConfigPath]).group, pcall.name) = 1
        /\ Occurrences(InputMatch(fs[viteConfigPath]).group, ViteEntry(pcall.name)) = 1
        /\ pcall \in pdone => fs = pprev

\* C9: on a routes file with neither a catch-all route nor a default export
\* the route block is appended at the end of the file and a warning is
\* emitted: the step is not reported as a plain success.
C9_AppendWithWarning ==
    (/\ pcall.op \in RoutesOps
     /\ routesPath \in DOMAIN pprev
     /\ ~Includes(pprev[routesPath], "app.get(\"*\"")
     /\ ~Includes(pprev[routesPath], "export default")) =>
        /\ SliceFrom(fs[routesPath], Len(fs[routesPath]) - Len(LastBlock)) = LastBlock
        /\ \E i \in 1..Len(plog) : MatchAt(plog[i], "warn:", 0)
        /\ ~\E i \in 1..Len(plog) : MatchAt(plog[i], "succeed:", 0)

\* ------------------------------------------------------------------------
\* Properties of the create-page command (checked under Spec; the collision
\* guard under SpecRerun, where a second run follows the first)
\* ------------------------------------------------------------------------
\* the naming rules of an identifier
NamingRulesOk(n) ==
    /\ ShapeOk(n)
    /\ ~Includes(n, "--")
    /\ CharAt(n, Len(n) - 1) # "-"
    /\ n \notin reservedKeywords \cup reservedNames

Logged(p, prefix) == \E i \in 1..Len(log[p]) : MatchAt(log[p][i], prefix, 0)

Refused(p) == pc[p] = "exited" /\ exitCode[p] = 1 /\ writes[p] = {}

\* C2: a name that fails a naming rule makes create-page exit with status 1
\* with no file created, written or patched; the file system is not changed
\* while the checks run.
C2_InvalidNameNoMutation ==
    \A p \in Procs :
        /\ (pc[p] \notin {"idle", "validate"} /\ ~NamingRulesOk(argName[p])) => Refused(p)
        /\ pc[p] \in {"validate", "checkExists", "prompt"} => fs = fs0[p] /\ writes[p] = {}

C2_Witness ==
    /\ argName[1] = "a--b"
    /\ Refused(1)
    /\ Logged(1, "error: Page name cannot contain consecutive hyphens")
    /\ ~io[1]
    /\ routesPath \in DOMAIN fs
    /\ fs = fs0[1]

\* C3: when the page directory src/client/<name> exists, the run is refused
\* with exit status 1 and writes or patches no file.
C3_CollisionRefused ==
    \A p \in Procs :
        (/\ pc[p] \notin {"idle", "validate", "checkExists"}
         /\ pathExists(fs0[p], PageDir(argName[p]))) => Refused(p)

C3_Witness ==
    /\ argName[1] = "user-profile" /\ ptype[1] = "dashboard" /\ pc[1] = "done" /\ exitCode[1] = 0
    /\ argName[2] = "user-profile" /\ Refused(2) /\ Logged(2, "error: Page already exists")

ClaimedReserved == {"class", "import", "default", "index", "constructor", "prototype"}

\* every reserved word is turned down by one of the two reserved-name checks
AllReservedFail ==
    \A n \in reservedKeywords \cup reservedNames :
        MatchAt(ValidationError(n), "Page name \"" \o n \o "\" is a reserved", 0)

\* C5: a reserved name is rejected with exit status 1 before any file I/O.
C5_ReservedRejected ==
    /\ \A p \in Procs :
          (argName[p] \in ClaimedReserved /\ pc[p] \notin {"idle", "validate"}) =>
              /\ Refused(p) /\ ~io[p]
              /\ Logged(p, "error: Page name \"" \o argName[p] \o "\" is a reserved")
    /\ AllReservedFail

C5_Witness ==
    /\ argName[1] = "index"
    /\ Refused(1)
    /\ ~io[1]
    /\ Logged(1, "error: Page name \"index\" is a reserved name")
    /\ fs = fs0[1]

\* the position of the step of a kind in the flow of p, 0 when it has none
StepIndex(p, kind) ==
    LET S == {k \in 1..Len(Flow(p)) : Flow(p)[k].kind = kind}
    IN  IF S = {} THEN 0 ELSE Min(S)

\* the patch step of p for an absent file was skipped with a warning
SkippedWithWarning(p, kind, path, warning) ==
    (/\ StepIndex(p, kind) > 0
     /\ step[p] > StepIndex(p, kind)
     /\ path \notin DOMAIN fs0[p]) =>
        /\ path \notin DOMAIN fs
        /\ Logged(p, warning)
        /\ pc[p] = "exited" => Logged(p, "fail: Page creation failed")
        /\ pc[p] = "done" =>
              /\ exitCode[p] = 0
              /\ Logged(p, "success:")
              /\ EventsPath(toCamelCase(argName[p]).val) \in DOMAIN fs

\* C10: with the routes file or the shard file absent, the patch step warns,
\* creates nothing and returns; the later steps run and the command exits
\* with status 0.
C10_MissingCollaboratorSkipped ==
    \A p \in Procs :
        pc[p] \in {"flow", "done", "exited"} /\ step[p] > 0 =>
            /\ SkippedWithWarning(p, "routes", routesPath, "warn: Routes file not found")
            /\ SkippedWithWarning(p, "shard", userShardPath, "warn: UserShard file not found")

C10_Witness ==
    /\ pc[1] = "done" /\ exitCode[1] = 0 /\ ptype[1] = "dashboard" /\ argName[1] = "user-profile"
    /\ routesPath \notin DOMAIN fs /\ userShardPath \notin DOMAIN fs
    /\ Logged(1, "warn: Routes file not found") /\ Logged(1, "warn: UserShard file not found")
    /\ EventsPath("userProfile") \in DOMAIN fs
    /\ Logged(1, "success:")

\* the declarations the schemas step of p adds
SchemaDeclarations(p) == Flow(p)[StepIndex(p, "schemas")].text

\* the schemas step of the flow of p has run
SchemasStepRan(p) ==
    /\ pc[p] \in {"flow", "done", "exited"}
    /\ step[p] > 0
    /\ StepIndex(p, "schemas") > 0
    /\ step[p] > StepIndex(p, "schemas")

\* C11: after the schema step, a type-schema file that was absent is the fixed
\* preamble (zod import, ErrorResponse schema and type) followed by the page's
\* declarations; one that existed is its old content followed by the page's
\* declarations.
C11_SchemaStep ==
    \A p \in Procs :
        SchemasStepRan(p) =>
            /\ schemasPath \in DOMAIN fs
            /\ schemasPath \in DOMAIN fs0[p] =>
                  fs[schemasPath] = fs0[p][schemasPath] \o SchemaDeclarations(p)
            /\ schemasPath \notin DOMAIN fs0[p] =>
                  /\ fs[schemasPath] = SchemasPreamble \o SchemaDeclarations(p)
                  /\ MatchAt(fs[schemasPath], "import { z } from \"zod\";", 0)
                  /\ Includes(SchemasPreamble, "export const ErrorResponseSchema = z.object({")
                  /\ Includes(SchemasPreamble, "export type ErrorResponse = ")
            /\ Includes(SchemaDeclarations(p),
                        "Load" \o toPascalCase(argName[p]).val \o "ResponseSchema")

C11_Witness ==
    /\ argName[1] = "user-profile" /\ ptype[1] = "feed" /\ pc[1] = "done"
    /\ schemasPath \notin DOMAIN fs0[1]
    /\ MatchAt(fs[schemasPath], SchemasPreamble \o "\n// UserProfile API Types\n", 0)
    /\ Includes(fs[schemasPath], "continuationToken: z.string().optional()")

\* the command of p ended in the catch block of the action handler
Failed(p) == pc[p] = "exited" /\ Logged(p, "fail: Page creation failed")

\* the states of C12: a failed run has exit status 1 and stopped at the step
\* that failed, the files written before are there; a run whose flow returned
\* has run every step and has exit status 0
C12_Outcome ==
    \A p \in Procs :
        /\ Failed(p) =>
              /\ exitCode[p] = 1
              /\ step[p] >= 1 /\ step[p] <= Len(Flow(p))
              /\ ~Logged(p, "success:")
        /\ (pc[p] = "done" /\ step[p] > 0) =>
              /\ exitCode[p] = 0
              /\ step[p] = Len(Flow(p)) + 1
              /\ ~Logged(p, "fail:")
        /\ step[p] > 0 => writes[p] \subseteq DOMAIN fs

\* the steps of C12: the failure changes no file and runs no step, and nothing
\* runs after it
C12_Abort ==
    \A p \in Procs :
        /\ (pc[p] = "flow" /\ pc'[p] = "exited") =>
              /\ fs' = fs
              /\ step'[p] = step[p]
              /\ writes'[p] = writes[p]
              /\ exitCode'[p] = 1
        /\ pc[p] = "exited" =>
              /\ pc'[p] = "exited"
              /\ step'[p] = step[p]
              /\ writes'[p] = writes[p]
              /\ exitCode'[p] = exitCode[p]

\* C12: a file system failure at a step of a page flow ends the command with
\* exit status 1, no later step runs, the files written by the earlier steps
\* keep their content (no rollback); a run without a failure exits with 0.
C12_FailureAborts == []C12_Outcome /\ [][C12_Abort]_vars

C12_Witness ==
    /\ Failed(1) /\ exitCode[1] = 1
    /\ argName[1] = "user-profile" /\ ptype[1] = "dashboard"
    /\ Flow(1)[step[1]].kind = "routes"
    /\ "src/client/user-profile/index.html" \in writes[1]
    /\ schemasPath \in writes[1]
    /\ Includes(fs[schemasPath], "LoadUserProfileResponseSchema")
    /\ routesPath \in DOMAIN fs /\ fs[routesPath] = fs0[1][routesPath]

ShardOps == {"addUserShardFunctions", "addFeedUserShardFunctions"}

\* the page name of the last patcher call in PascalCase
LastPascal == toPascalCase(pcall.name).val

\* C13: after shard patches with the same page name the shard class file has
\* exactly one copy of the generated load<N> and save<N> methods: a repeated
\* patch skips the insertion.
C13_OneCopyOfMethods ==
    (/\ pcall.op \in ShardOps
     /\ userShardPath \in DOMAIN pprev
     /\ Includes(pprev[userShardPath], "}")) =>
        /\ Occurrences(fs[userShardPath], "async load" \o LastPascal \o "(") = 1
        /\ Occurrences(fs[userShardPath], "async save" \o LastPascal \o "(") = 1
        /\ pcall \in pdone => fs[userShardPath] = pprev[userShardPath]

\* C14: a type-schema file that already holds the declarations of the page
\* (the marker Load<N>ResponseSchema is present) is left unmodified by the
\* schema step.
C14_SchemaAlreadyPatched ==
    \A p \in Procs :
        (/\ SchemasStepRan(p)
         /\ schemasPath \in DOMAIN fs0[p]
         /\ Includes(fs0[p][schemasPath],
                     "Load" \o toPascalCase(argName[p]).val \o "ResponseSchema")) =>
            fs[schemasPath] = fs0[p][schemasPath]

\* C15: a vite config without an input mapping, or a shard file without a
\* closing brace, is left byte-identical by its patcher, which emits a warning
\* and returns.
C15_AnchorNotFound ==
    /\ (/\ pcall.op = "updateViteConfig"
        /\ viteConfigPath \in DOMAIN pprev
        /\ ~InputMatch(pprev[viteConfigPath]).found) =>
           /\ fs = pprev
           /\ \E i \in 1..Len(plog) : MatchAt(plog[i], "warn:", 0)
    /\ (/\ pcall.op \in ShardOps
        /\ userShardPath \in DOMAIN pprev
        /\ ~Includes(pprev[userShardPath], "}")) =>
           /\ fs = pprev
           /\ \E i \in 1..Len(plog) : MatchAt(plog[i], "warn:", 0)

\* the naming checks in the order of the rule list, each with the reason it reports
C16_Checks(n) ==
    << [fails |-> Len(Trim(n)) = 0,
        reason |-> "Page name cannot be empty"],
       [fails |-> \E i \in 1..Len(n) : SubSeq(n, i, i) \in WhiteSpace,
        reason |-> "Page name cannot contain spaces or whitespace"],
       [fails |-> ~ShapeOk(n),
        reason |-> "Page name must start with a letter and contain only lowercase letters, numbers, and hyphens"],
       [fails |-> \E i \in 1..(Len(n) - 1) : SubSeq(n, i, i + 1) = "--",
        reason |-> "Page name cannot contain consecutive hyphens"],
       [fails |-> Len(n) > 0 /\ (SubSeq(n, 1, 1) = "-" \/ SubSeq(n, Len(n), Len(n)) = "-"),
        reason |-> "Page name cannot start or end with a hyphen"],
       [fails |-> n \in reservedKeywords,
        reason |-> "Page name \"" \o n \o "\" is a reserved JavaScript/TypeScript keyword"],
       [fails |-> n \in reservedNames,
        reason |-> "Page name \"" \o n \o "\" is a reserved name and might cause conflicts"],
       [fails |-> ~toPascalCase(n).ok \/ ~toCamelCase(n).ok,
        reason |-> "Invalid page name: " \o
                   (IF ~toPascalCase(n).ok THEN toPascalCase(n).val ELSE toCamelCase(n).val)] >>

\* the reason of the first check in that order the name fails, "" when it fails none
C16_FirstReason(n) ==
    LET checks == C16_Checks(n)
        failing == {k \in 1..Len(checks) : checks[k].fails}
    IN  IF failing = {} THEN "" ELSE checks[Min(failing)].reason

\* the error messages a run has printed
Errors(p) == SelectSeq(log[p], LAMBDA m : MatchAt(m, "error:", 0))

\* on every bounded input the handler's message is that of the first failing check
C16_AllInputs == \A n \in NameInputs \cup CmdNames : ValidationError(n) = C16_FirstReason(n)

\* C16: the naming checks run in the order non-empty, no-whitespace, shape,
\* no-consecutive-hyphens, no-leading/trailing-hyphen, language words, special
\* names, case-transform dry run; a run whose name fails a check prints the
\* reason of the first such check and nothing of a later one, and exits there.
C16_ValidationOrder ==
    /\ \A p \in Procs :
          pc[p] \notin {"idle", "validate"} =>
              IF C16_FirstReason(argName[p]) # ""
              THEN /\ pc[p] = "exited" /\ exitCode[p] = 1
                   /\ Errors(p) = <<"error: " \o C16_FirstReason(argName[p])>>
                   /\ ~io[p] /\ writes[p] = {}
              ELSE /\ ~Logged(p, "error: Page name")
                   /\ ~Logged(p, "error: Invalid page name")
    /\ C16_AllInputs

C16_Witness ==
    /\ argName[1] = "default"
    /\ argName[1] \in reservedKeywords \cap reservedNames
    /\ pc[1] = "exited" /\ exitCode[1] = 1
    /\ log[1] = <<"error: Page name \"default\" is a reserved JavaScript/TypeScript keyword">>

\* the character the screaming-snake form has in the place of c
SnakeChar(c) ==
    IF c = "-" THEN "_"
    ELSE IF \E k \in 1..Len(LowerLetters) : SubSeq(LowerLetters, k, k) = c
         THEN LET k == CHOOSE j \in 1..Len(LowerLetters) : SubSeq(LowerLetters, j, j) = c
              IN  SubSeq(UpperLetters, k, k)
         ELSE c

\* C17: toScreamingSnakeCase returns, for every input, the input with each
\* letter uppercased and each hyphen replaced by an underscore, and never
\* fails; for a validated name the result has the length of the input and no
\* hyphen and no lowercase letter; user-profile gives USER_PROFILE.
C17_ScreamingSnake ==
    tSnake # Unset =>
        /\ tSnake.ok
        /\ Len(tSnake.val) = Len(tArg)
        /\ \A i \in 1..Len(tArg) : SubSeq(tSnake.val, i, i) = SnakeChar(SubSeq(tArg, i, i))
        /\ ValidationError(tArg) = "" =>
              \A i \in 1..Len(tSnake.val) :
                  /\ SubSeq(tSnake.val, i, i) # "-"
                  /\ ~IsLower(SubSeq(tSnake.val, i, i))
        /\ tArg = "user-profile" => tSnake.val = "USER_PROFILE"

C17_Witness ==
    /\ tArg = "user-profile"
    /\ ValidationError(tArg) = ""
    /\ tSnake = Ok("USER_PROFILE")

\* C18: after createPricingAbstractions(content) the pricing module file
\* src/server/pricing/index.ts holds the generated check()/track() code that
\* was passed in.
C18_PricingModule ==
    pcall.op = "createPricingAbstractions" =>
        /\ abstractionsFile \in DOMAIN fs
        /\ fs[abstractionsFile] = abstractionsCode(pcall.name)
        /\ Includes(fs[abstractionsFile], "export async function check(")
        /\ Includes(fs[abstractionsFile], "export async function track(")

\* a step in which the existence check of p is made
ChecksExistence(p) == pc[p] = "checkExists" /\ pc'[p] # "checkExists"

\* C19: the page-already-exists guard looks only at the file system at the
\* moment of the check, whatever another invocation is doing: it refuses when
\* the page directory exists and lets the run go on when it does not, so two
\* invocations for one name can both pass it and both write the page's files.
C19_GuardAdvisory ==
    [][\A p \in Procs :
          ChecksExistence(p) =>
              IF pathExists(fs, PageDir(argName[p]))
              THEN pc'[p] = "exited" /\ exitCode'[p] = 1 /\ writes'[p] = {}
              ELSE pc'[p] = "prompt"]_vars

\* both invocations for one name have passed the guard and written the page
C19_Witness ==
    /\ argName[1] = argName[2]
    /\ ~pathExists(fs0[1], PageDir(argName[1]))
    /\ \A p \in Procs :
          /\ pc[p] = "done" /\ exitCode[p] = 0
          /\ PageDir(argName[p]) \o "/index.html" \in writes[p]
          /\ Logged(p, "success:")

CatchAll == "app.get(\"*\""

\* where the route block belongs in a routes file: at its first catch-all
\* registration, without one at its last default export, -1 without either
RouteAnchor(old) ==
    IF Includes(old, CatchAll) THEN IndexOf(old, CatchAll)
    ELSE LastIndexOf(old, "export default")

\* where the registrations of a routes file start, the anchor when none precedes it
FirstRegistration(old) ==
    LET before == {i \in 0..RouteAnchor(old) : MatchAt(old, "app.", i)}
    IN  IF before = {} THEN RouteAnchor(old) ELSE Min(before)

\* C20: a route patch splices the block immediately before the first catch-all
\* registration when the routes file has one, otherwise immediately before
\* the last "export default" when it has one; the anchor and the registrations
\* the file had stay in it in their order.
C20_RouteAnchor ==
    (/\ pcall.op \in RoutesOps
     /\ routesPath \in DOMAIN pprev
     /\ RouteAnchor(pprev[routesPath]) # -1) =>
        LET old == pprev[routesPath]
            new == fs[routesPath]
            a == RouteAnchor(old)
            tail == Slice(old, FirstRegistration(old), a) \o LastBlock \o "\n" \o SliceFrom(old, a)
        IN  /\ Len(new) >= Len(tail)
            /\ SliceFrom(new, Len(new) - Len(tail)) = tail
            /\ RouteAnchor(new) = Len(new) - (Len(old) - a)
            /\ Includes(old, CatchAll) <=> Includes(new, CatchAll)

\* the file had both anchors and the block went before the catch-all
C20_Witness ==
    /\ pcall.op \in RoutesOps
    /\ routesPath \in DOMAIN pprev
    /\ Includes(pprev[routesPath], CatchAll)
    /\ Includes(pprev[routesPath], "export default")
    /\ MatchAt(fs[routesPath], LastBlock \o "\n" \o CatchAll,
               IndexOf(fs[routesPath], CatchAll) - Len(LastBlock) - 1)
    /\ IndexOf(fs[routesPath], CatchAll) < LastIndexOf(fs[routesPath], "export default")

\* the file had a default export and no catch-all, and the block went before the export
C20_WitnessExport ==
    /\ pcall.op \in RoutesOps
    /\ routesPath \in DOMAIN pprev
    /\ ~Includes(pprev[routesPath], CatchAll)
    /\ MatchAt(fs[routesPath], LastBlock \o "\nexport default",
               LastIndexOf(fs[routesPath], "export default") - Len(LastBlock) - 1)

\* the lines of a text
RECURSIVE LinesOf(_)
LinesOf(s) ==
    LET i == IndexOf(s, "\n")
    IN  IF i = -1 THEN <<s>> ELSE <<Slice(s, 0, i)>> \o LinesOf(SliceFrom(s, i + 1))

IsImportLine(l) == MatchAt(l, "import", 0)

\* the names between the braces of an import line, none when it has no braces
ImportedNames(l) ==
    LET open == IndexOf(l, "{")
        close == IndexOf(l, "}")
    IN  IF open = -1 \/ close < open THEN {}
        ELSE SeqRange(SplitCommaTrim(Slice(l, open + 1, close))) \ {""}

\* the module an import line names: its text from the last "from" on
ImportedModule(l) ==
    IF LastIndexOf(l, "from ") = -1 THEN l ELSE SliceFrom(l, LastIndexOf(l, "from "))

\* new differs from old only by added import names or added import lines
OnlyImportsAdded(old, new) ==
    /\ SelectSeq(LinesOf(new), LAMBDA l : ~IsImportLine(l))
         = SelectSeq(LinesOf(old), LAMBDA l : ~IsImportLine(l))
    /\ \A l \in SeqRange(SelectSeq(LinesOf(old), IsImportLine)) :
          \E m \in SeqRange(SelectSeq(LinesOf(new), IsImportLine)) :
              /\ ImportedModule(m) = ImportedModule(l)
              /\ ImportedNames(l) \subseteq ImportedNames(m)
              /\ ImportedNames(l) = {} => m = l

\* the methods the last patcher call generates
LastFunctions ==
    IF pcall.op = "addFeedUserShardFunctions"
    THEN feedFunctionsToAdd(pcall.name, LastPascal)
    ELSE functionsToAdd(pcall.name, LastPascal)

\* the last patcher call was a shard patch of a file with a class body
ShardClassPatched ==
    /\ pcall.op \in ShardOps
    /\ userShardPath \in DOMAIN pprev
    /\ Includes(pprev[userShardPath], "class ")
    /\ Includes(pprev[userShardPath], "}")

ImportsOf(text, mod) ==
    {i \in 0..(Len(text) - 1) : \E q \in Quotes : MatchAt(text, "} from " \o q \o mod \o q, i)}

\* the names of the first named import of a module in a text, in their order;
\* the empty sequence when the text has no such import
ImportNamesOf(text, mod) ==
    LET close == Min(ImportsOf(text, mod))
        open == Max({i \in 0..close : CharAt(text, i) = "{"})
    IN  IF ImportsOf(text, mod) = {} THEN <<>>
        ELSE SelectSeq(SplitCommaTrim(Slice(text, open + 1, close)), LAMBDA n : n # "")

SchemaImportNames(text) == ImportNamesOf(text, schemasModule)

\* the names the last patcher call needs from the schemas module
RequiredNames ==
    IF pcall.op \in RoutesOps
    THEN {"Load" \o LastPascal \o "ResponseSchema", "Save" \o LastPascal \o "RequestSchema",
          "Save" \o LastPascal \o "ResponseSchema"}
    ELSE {"ErrorResponse", "Load" \o LastPascal \o "Response", "Save" \o LastPascal \o "Response"}

\* the file the last patcher call works on
PatchedPath == IF pcall.op \in RoutesOps THEN routesPath ELSE userShardPath

\* the last call patched a file that had a named import of the schemas module
HadSchemaImport ==
    /\ pcall.op \in RoutesOps \cup ShardOps
    /\ PatchedPath \in DOMAIN pprev
    /\ SchemaImportNames(pprev[PatchedPath]) # <<>>

\* C22: when the routes or shard file has a named import of the schemas
\* module, the patch appends the required names that are missing from its
\* list: afterwards every old name and every required name is in the list
\* and no name is in it twice.
C22_ImportNamesMerged ==
    HadSchemaImport =>
        LET before == SchemaImportNames(pprev[PatchedPath])
            after == SchemaImportNames(fs[PatchedPath])
        IN  /\ SeqRange(before) \subseteq SeqRange(after)
            /\ RequiredNames \subseteq SeqRange(after)
            /\ Cardinality(SeqRange(before)) = Len(before)
                  => Cardinality(SeqRange(after)) = Len(after)

\* the module of the events of the page of the last patcher call
LastEventsModule == "@shared/types/" \o toCamelCase(pcall.name).val \o "Events"

\* the modules the last patcher call imports from, each with the names it needs
RequiredImports ==
    IF pcall.op \in RoutesOps THEN {[mod |-> schemasModule, names |-> RequiredNames]}
    ELSE {[mod |-> schemasModule, names |-> RequiredNames],
          [mod |-> LastEventsModule,
           names |-> {LastPascal \o "Event", LastPascal \o "Change",
                      LastPascal \o "EventResult", "handle" \o LastPascal \o "Change"}]}

\* where the first import line of a text ends (after its line break), 0 when
\* the text has no import line
FirstImportLineEnd(text) ==
    LET starts == {i \in 0..(Len(text) - 1) :
                      MatchAt(text, "import", i) /\ (i = 0 \/ CharAt(text, i - 1) = "\n")}
        end == IndexOfFrom(text, "\n", Min(starts))
    IN  IF starts = {} THEN 0 ELSE IF end = -1 THEN Len(text) ELSE end + 1

\* where the import statement of a module starts in a text that has one
ImportStart(text, mod) ==
    Max({i \in 0..Min(ImportsOf(text, mod)) : MatchAt(text, "import", i)})

\* the import of mod was put right after the first import line old had (at
\* the start when it had none): the text up to that line is as it was and
\* only other new import lines stand between the line and the statement
PlacedAfterFirstImport(old, new, mod) ==
    LET e == FirstImportLineEnd(old)
        p == ImportStart(new, mod)
    IN  /\ p >= e
        /\ Slice(new, 0, e) = Slice(old, 0, e)
        /\ \A l \in SeqRange(LinesOf(Slice(new, e, p))) :
              l = "" \/ (IsImportLine(l) /\ l \notin SeqRange(LinesOf(old)))

\* C23: when the routes or shard file has no import of a module the patch
\* needs, the patch inserts a new import statement right after the first
\* import line of the file, or at the start of a file without import lines,
\* and the required names are imported afterwards.
C23_StandaloneImport ==
    (pcall.op \in RoutesOps \cup ShardOps /\ PatchedPath \in DOMAIN pprev) =>
        \A r \in RequiredImports :
            ImportsOf(pprev[PatchedPath], r.mod) = {} =>
                /\ ImportsOf(fs[PatchedPath], r.mod) # {}
                /\ r.names \subseteq SeqRange(ImportNamesOf(fs[PatchedPath], r.mod))
                /\ PlacedAfterFirstImport(pprev[PatchedPath], fs[PatchedPath], r.mod)

Collaborators == {viteConfigPath, schemasPath, routesPath, userShardPath}

\* the run of p is a dashboard or feed generation that has started its flow
GenerationRun(p) == step[p] > 0 /\ ptype[p] \in {"dashboard", "feed"}

\* a collaborator file that existed when p started has been changed
CollaboratorMutated(p) ==
    \E c \in Collaborators \cap DOMAIN fs0[p] : c \notin DOMAIN fs \/ fs[c] # fs0[p][c]

\* the files the flow of p generates
GeneratedFiles(p) == {Flow(p)[k].path : k \in {j \in 1..Len(Flow(p)) : Flow(p)[j].kind = "emit"}}

\* C24: in a dashboard or feed run every generated file (page files, API
\* client, services, events file) is written before the first mutation of an
\* existing collaborator file, and the closing guidance is printed only after
\* all the patches.
C24_FlowOrder ==
    \A p \in Procs :
        GenerationRun(p) =>
            /\ CollaboratorMutated(p) => GeneratedFiles(p) \subseteq writes[p]
            /\ Logged(p, "success:") => step[p] > Len(Flow(p))

\* the bounded inputs that pass validation
ValidInputs == {n \in NameInputs : ValidationError(n) = ""}

\* the paths of the files the flows generate for a name, whatever the type
GeneratedPaths ==
    [n \in ValidInputs |->
        UNION {{FlowOf(t, n)[k].path :
                   k \in {j \in 1..Len(FlowOf(t, n)) : FlowOf(t, n)[j].kind = "emit"}} :
               t \in Types}]

\* C25: the files generated for two distinct names that pass validation (the
\* page directory src/client/<name>/ and the events file
\* shared/types/<camelName>Events.ts) have no path in common.
C25_DisjointPaths ==
    (ValidationError(tArg) = "" /\ tCamel # Unset) =>
        /\ EventsPath(tCamel.val) \in GeneratedPaths[tArg]
        /\ \A n \in ValidInputs \ {tArg} : GeneratedPaths[n] \cap GeneratedPaths[tArg] = {}

\* C26: updateViteConfig(n) on a vite config whose input mapping has no key
\* equal to n adds an entry for n, also when another entry contains the text
\* "<n>:" (key admin when n is min).
C26_ExactKeyCheck ==
    (/\ pcall.op = "updateViteConfig"
     /\ viteConfigPath \in DOMAIN pprev
     /\ InputMatch(pprev[viteConfigPath]).found
     /\ KeyCount(InputMatch(pprev[viteConfigPath]).group, pcall.name) = 0) =>
        /\ InputMatch(fs[viteConfigPath]).found
        /\ Includes(InputMatch(fs[viteConfigPath]).group, "\n" \o ViteEntry(pcall.name))
        /\ KeyCount(InputMatch(fs[viteConfigPath]).group, pcall.name) = 1

\* a is b with some of its elements left out
RECURSIVE IsSubsequence(_, _)
IsSubsequence(a, b) ==
    IF a = <<>> THEN TRUE
    ELSE IF b = <<>> THEN FALSE
    ELSE IF Head(a) = Head(b) THEN IsSubsequence(Tail(a), Tail(b))
    ELSE IsSubsequence(a, Tail(b))

\* an import line of a module the patchers add names to
IsPatchedImportLine(l) ==
    IsImportLine(l) /\ (Includes(l, schemasModule) \/ Includes(l, honoStatusModule))

\* the route block and the methods the run of p generates
RouteBlockOf(p) ==
    IF ptype[p] = "feed" THEN feedRoutesToAdd(argName[p], toPascalCase(argName[p]).val)
    ELSE routesToAdd(argName[p], toPascalCase(argName[p]).val)

LoadMethodOf(p) == "async load" \o toPascalCase(argName[p]).val \o "("

SaveMethodOf(p) == "async save" \o toPascalCase(argName[p]).val \o "("

\* two dashboard or feed pages with distinct names were generated one after the other
TwoPagesGenerated ==
    /\ argName[1] # argName[2]
    /\ \A p \in Procs :
          /\ pc[p] = "done" /\ Logged(p, "success:")
          /\ ptype[p] \in {"dashboard", "feed"}

\* both route blocks are in the routes file once, the first page's first, and
\* before the anchor when the file has one
RouteBlocksInOrder ==
    /\ \A p \in Procs : Occurrences(fs[routesPath], RouteBlockOf(p)) = 1
    /\ IndexOf(fs[routesPath], RouteBlockOf(1)) < IndexOf(fs[routesPath], RouteBlockOf(2))
    /\ RouteAnchor(fs0[1][routesPath]) # -1 =>
          IndexOf(fs[routesPath], RouteBlockOf(2)) < RouteAnchor(fs[routesPath])

\* both pages' methods are in the shard file once, the first page's first
MethodsInOrder ==
    /\ \A p \in Procs :
          /\ Occurrences(fs[userShardPath], LoadMethodOf(p)) = 1
          /\ Occurrences(fs[userShardPath], SaveMethodOf(p)) = 1
    /\ IndexOf(fs[userShardPath], SaveMethodOf(1)) < IndexOf(fs[userShardPath], LoadMethodOf(2))

EndpointOps == {"addApiEndpoint", "addWebhookEndpoint"}

\* the import lines and the mount statements of the routers of the model
RouterStatements ==
    {"import { aiRouter } from './api/ai';", "app.route('/', aiRouter);",
     "app.route('/', webhookRouter);"}
      \cup {"import { webhookRouter } from './webhooks/" \o provider \o "';" : provider \in Providers}

\* C28: updateMainServer is idempotent: a second addApiEndpoint or
\* addWebhookEndpoint call with the same name leaves src/server/index.ts as
\* the first call left it, and after any calls the file has at most one copy
\* of each router's import line and of each mount statement.
C28_MainServerIdempotent ==
    (pcall.op \in EndpointOps /\ serverFile \in DOMAIN pprev) =>
        /\ pcall \in pdone => fs[serverFile] = pprev[serverFile]
        /\ \A st \in RouterStatements : Occurrences(fs[serverFile], st) <= 1

C28_Witness ==
    /\ pcall = [op |-> "addWebhookEndpoint", name |-> "stripe"]
    /\ pcall \in pdone
    /\ serverFile \in DOMAIN pprev
    /\ fs[serverFile] = pprev[serverFile]
    /\ Occurrences(fs[serverFile], "import { webhookRouter } from './webhooks/stripe';\n") = 1
    /\ Occurrences(fs[serverFile], "app.route('/', webhookRouter);\n\napp.listen") = 1

Cancelled(p) == \E i \in DOMAIN log[p] : log[p][i] = "Page creation cancelled"

\* C29: a run in which the confirmation was declined (no -y) has returned
\* with exit code 0 and has created, written and patched nothing: the file
\* system is the one of the invocation.  With -y the run is never cancelled
\* and goes from the collision check straight to the first generation step,
\* which starts on the untouched file system.
C29_DeclineIsNoOp ==
    \A p \in Procs :
        /\ Cancelled(p) =>
              /\ ~yes[p]
              /\ pc[p] = "done"
              /\ exitCode[p] = 0
              /\ writes[p] = {}
              /\ fs = fs0[p]
        /\ yes[p] => ~Cancelled(p) /\ pc[p] \in {"flow", "done", "exited"}
        /\ (pc[p] = "flow" /\ step[p] = 1) => writes[p] = {} /\ fs = fs0[p]

C29_Witness ==
    /\ Cancelled(1)
    /\ ~yes[1]
    /\ pc[1] = "done"
    /\ io[1]
    /\ writes[1] = {}
    /\ fs = fs0[1]
    /\ ~pathExists(fs, PageDir(argName[1]))

StatusCodeImportLine == "import { ContentfulStatusCode } from \"hono/utils/http-status\";\n"

\* the text before position idx ends inside an import statement: its last
\* import keyword has no from clause yet
InsideImport(text, idx) ==
    LET before == Slice(text, 0, idx)
        k == LastIndexOf(before, "import")
    IN  k # -1 /\ ~Includes(SliceFrom(before, k), " from ")

\* C30: when a routes patch has inserted the standalone ContentfulStatusCode
\* import into a file that had none, the inserted line does not stand
\* inside another import statement.
C30_ImportBetweenStatements ==
    (/\ pcall.op \in RoutesOps
     /\ routesPath \in DOMAIN pprev
     /\ ~Includes(pprev[routesPath], "ContentfulStatusCode")
     /\ Includes(fs[routesPath], StatusCodeImportLine)) =>
        ~InsideImport(fs[routesPath], IndexOf(fs[routesPath], StatusCodeImportLine))

====
